---- MODULE Spec2Model ----
(***************************************************************************)
(* Aethelgard: the task brokers (local in-process and Redis), the          *)
(* orchestration server, the edge node, the semantic firewall, and the     *)
(* ingestion node with its file-change tracker.                            *)
(*                                                                         *)
(* The Redis broker is modelled at the granularity of single Redis         *)
(* commands (every `await self.redis...` is a suspension point); the       *)
(* in-process broker's operations hold no await inside their critical      *)
(* section and are one step each.  SpecLock models the same operations     *)
(* statement by statement under their asyncio.Lock, to show that.          *)
(*                                                                         *)
(* Tasks carry a history tag `uid` (the ordinal of the enqueue_query call  *)
(* that created them).  The program never reads it: LREM and every         *)
(* comparison of the code look at the payload only.                        *)
(***************************************************************************)
EXTENDS Integers, Sequences, FiniteSets, TLC

\* ------------------------------------------------------------------ bounds
MaxEnq == 2
MaxSave == 2
MaxBroadcast == 2
MaxSanitize == 2
MaxOps == 2
MaxPass == 2
MaxTouch == 2
MaxRows == 3
MaxLimit == 2
MaxComp == 2

Clients == {"Hospital_A", "Hospital_B"}
RequestIds == {"req_1", "req_2"}
Vectors == {<<1, 2, 3>>, <<4>>}
CrashVector == <<1, 2, 3>>
InsightTexts == {"x", "y"}
Pollers == {1, 2}
NoOne == "-"

\* The lists a broadcast may name as target_clients (List[str]: any order, repeats
\* allowed, possibly empty).
TargetLists ==
  {<<>>, <<"Hospital_A">>, <<"Hospital_B">>, <<"Hospital_A", "Hospital_B">>,
   <<"Hospital_B", "Hospital_A">>, <<"Hospital_A", "Hospital_A">>}

\* What the injected search_fn may do with a task.
SearchOutcomes == {"insight", "none", "raise"}

\* Python's None where a string may stand.
PyNone == "None"

\* What the injected retriever_fn may return: None, the empty string, or a case text.
RawTexts == {PyNone, "", "case_a", "case_b"}

\* What the LLM call may return: a JSON string, as the tuple of its keys and values.
LlmOutputs == {<<"diagnosis", "pneumonia">>, <<"msg", "No local matches found.">>}

\* ------------------------------------------------------------------ state
VARIABLES
  backend,      \* which BaseTaskBroker the server was built with
  queues,       \* InMemoryBroker.queues  : dict client_id -> list of tasks
  insights,     \* InMemoryBroker.insights: dict request_id -> list of records
  redis,        \* the Redis lists, by key
  poll,         \* per caller of dequeue_queries: its position and local `tasks`
  last,         \* the dequeue_queries call the last step returned from, if it did
  ackp,         \* the caller of RedisBroker.ack: its position and locals
  consensus,    \* the last get_consensus call: argument, result
  nextUid,      \* history: ordinal of the next enqueue_query call
  enq,          \* history: enq[u] = arguments of the u-th enqueue_query call
  delivered,    \* history: delivered[u] = number of dequeue results holding u
  sinceLast,    \* history: per client, uids enqueued since its last dequeue returned
  submitted,    \* history: per request id, the save_insight calls in call order
  nSaved,       \* history: number of save_insight calls
  ackLog,       \* history: the acks that removed an entry, with the list before/after
  crashed,      \* history: uids handed to a consumer that crashed before acking them
  bc,           \* the running broadcast_query handler: its position and locals
  nextReq,      \* number of uuid4() values drawn so far, plus one
  bcasts,       \* history: the broadcast requests: returned or not, the turn that raised
  node,         \* Node.heartbeat_loop: its position and locals
  nodeAcks,     \* history: uids of the tasks for which transport.ack was invoked
  nodeLog,      \* history: per task the node searched: the result, and what it submitted
  xport,        \* the last call of a client transport operation and how it ended
  ackResp,      \* the last answer of the server's ack endpoint
  fw,           \* LiteLLMFirewall.sanitize: its position and locals
  fwLog,        \* history: per finished sanitize call, what was retrieved and returned
  lock,         \* InMemoryBroker.lock: the coroutine holding it, or NoOne
  waiters,      \* asyncio.Lock's queue of coroutines waiting for it
  cop,          \* per coroutine: the broker operation it runs, its position and locals
  serial,       \* history: the maps and results of the operations run whole, in lock order
  nOps,         \* history: number of broker operations started by the coroutines
  disk,         \* the files of the node's data directory: st_mtime and st_size
  file_state,   \* SmartFolder's table: filepath -> (timestamp, size)
  sync,         \* sync_database: its position and locals
  table,        \* the vector table: ids of the rows added
  pass,         \* history: the sync pass last started: staged, skipped, added, marked,
                \* whether a file changed since, what the pass before it yielded
  exams,        \* history: per file its scan looked at, what it saw, whether it yielded
  marked,       \* history: per file, the arguments of the last mark_processed
  nTouch,       \* history: number of changes made to files
  ingest,       \* the CSV loop of the generator / batch preprocessor, and its locals
  gen,          \* generate_dataset: its patient loop, the routing made, the files written
  batch,        \* the batch preprocessor and postprocessor: positions, files, locals
  demo,         \* broadcast_and_poll of the demo: its position, locals, fetches made
  fusion,       \* _fuse_vectors: its arguments and its result
  twin,         \* both brokers given the same calls: their stores and their last results
  ackStep       \* history: the last step of an ack call, and the parity of their number

vars == <<backend, queues, insights, redis, poll, last, ackp, consensus, nextUid, enq,
          delivered, sinceLast, submitted, nSaved, ackLog, crashed, bc, nextReq,
          bcasts, node, nodeAcks, nodeLog, xport, ackResp, fw, fwLog,
          lock, waiters, cop, serial, nOps, disk, file_state, sync, table, pass,
          exams, marked, nTouch, ingest, gen, batch, demo, fusion, twin, ackStep>>

\* ------------------------------------------------------------- python dict
DictGet(d, k, default) == IF k \in DOMAIN d THEN d[k] ELSE default

DictSet(d, k, v) == [x \in (DOMAIN d) \cup {k} |-> IF x = k THEN v ELSE d[x]]

EmptyDict == [x \in {} |-> <<>>]

\* ------------------------------------------------------------------- json
\* json.dumps of a two-key dict: the keys and values in insertion order.
JsonDumps(keys, obj) == <<keys[1], obj[keys[1]], keys[2], obj[keys[2]]>>

\* json.loads of such a string: the dict it denotes.
JsonLoads(s) == [k \in {s[1], s[3]} |-> IF k = s[1] THEN s[2] ELSE s[4]]

TaskKeys == <<"request_id", "query_vector">>
InsightKeys == <<"client_id", "insight">>

\* ------------------------------------------------------------ redis lists
QueueKey(c) == <<"queue", c>>
ProcessingKey(c) == <<"processing", c>>
InsightsKey(r) == <<"request", r, "insights">>

RedisKeys == {QueueKey(c) : c \in Clients} \cup {ProcessingKey(c) : c \in Clients}
               \cup {InsightsKey(r) : r \in RequestIds}

\* A list element: the stored string, and the history tag of the call that stored it.
Entry(s, u) == [data |-> s, uid |-> u]

\* LPUSH key value: insert at the head.
LPUSH(db, key, e) == [db EXCEPT ![key] = <<e>> \o @]

\* LRANGE key 0 -1: the whole list, head first.
LRANGE(db, key) == db[key]

\* LMOVE src dst RIGHT LEFT: the element popped from the tail of src (none when src
\* is empty) ...
LMOVEResult(db, src) == IF db[src] = <<>> THEN <<>> ELSE <<db[src][Len(db[src])]>>

\* ... and the store afterwards: that element pushed at the head of dst.
LMOVEStore(db, src, dst) ==
  IF db[src] = <<>> THEN db
  ELSE [db EXCEPT ![src] = SubSeq(@, 1, Len(@) - 1),
                  ![dst] = <<db[src][Len(db[src])]>> \o @]

\* Index of the first element (from the head) whose stored string is s; 0 if none.
FirstIndex(list, s) ==
  IF \E i \in 1..Len(list) : list[i].data = s
  THEN CHOOSE i \in 1..Len(list) :
         /\ list[i].data = s
         /\ \A j \in 1..(i - 1) : list[j].data # s
  ELSE 0

RemoveAt(list, i) ==
  IF i = 0 THEN list ELSE SubSeq(list, 1, i - 1) \o SubSeq(list, i + 1, Len(list))

\* LREM key 0 value: remove every element equal to value.
LREMAll(db, key, s) == [db EXCEPT ![key] = SelectSeq(@, LAMBDA e : e.data # s)]

\* LREM key 1 value: remove the first element equal to value, scanning from the head.
LREM(db, key, s) == [db EXCEPT ![key] = RemoveAt(@, FirstIndex(@, s))]

\* ------------------------------------------------------- InMemoryBroker
\* The dict a task is in the in-process broker (plus its history tag).
MemTask(r, v, u) == [request_id |-> r, query_vector |-> v, uid |-> u]

MemEnqueueAtHead(q, c, task) ==
  LET q1 == IF c \notin DOMAIN q THEN DictSet(q, c, <<>>) ELSE q
  IN  DictSet(q1, c, <<task>> \o q1[c])

\* enqueue_query: self.queues after the call.
MemEnqueue(q, c, task) ==
  LET q1 == IF c \notin DOMAIN q THEN DictSet(q, c, <<>>) ELSE q
  IN  DictSet(q1, c, Append(q1[c], task))

\* dequeue_queries: the list returned ...
MemDequeueTasks(q, c) == DictGet(q, c, <<>>)

\* The last task stays queued.
MemDequeueKeepLast(q, c) ==
  LET list == DictGet(q, c, <<>>)
  IN  DictSet(q, c, IF list = <<>> THEN <<>> ELSE <<list[Len(list)]>>)

MemDequeueKeep(q, c) == q

\* Every client's list is emptied.
MemDequeueClearAll(q, c) == DictSet([x \in DOMAIN q |-> <<>>], c, <<>>)

\* ... and self.queues after the call.
MemDequeueQueues(q, c) == DictSet(q, c, <<>>)

MemSaveInsightAtHead(ins, r, c, s) ==
  LET i1 == IF r \notin DOMAIN ins THEN DictSet(ins, r, <<>>) ELSE ins
  IN  DictSet(i1, r, <<[client_id |-> c, insight |-> s]>> \o i1[r])

\* save_insight: self.insights after the call.
MemSaveInsight(ins, r, c, s) ==
  LET i1 == IF r \notin DOMAIN ins THEN DictSet(ins, r, <<>>) ELSE ins
  IN  DictSet(i1, r, Append(i1[r], [client_id |-> c, insight |-> s]))

\* get_consensus: the list returned.
MemGetConsensus(ins, r) == DictGet(ins, r, <<>>)

\* ---------------------------------------------------------- RedisBroker
\* RPUSH queue:{client} json(task): the task goes to the tail.
RedisEnqueueAtTail(db, c, r, v, u) ==
  [db EXCEPT ![QueueKey(c)] =
     Append(@, Entry(JsonDumps(TaskKeys, [request_id |-> r, query_vector |-> v]), u))]

\* enqueue_query: the store after LPUSH queue:{client} json(task).
RedisEnqueue(db, c, r, v, u) ==
  LPUSH(db, QueueKey(c),
        Entry(JsonDumps(TaskKeys, [request_id |-> r, query_vector |-> v]), u))

\* dequeue_queries, one turn of its loop: what LMOVE returns ...
RedisDequeueGot(db, c) == LMOVEResult(db, QueueKey(c))

\* RPOP queue:{client} alone: nothing is kept of the element.
RedisDequeuePopOnly(db, c) ==
  [db EXCEPT ![QueueKey(c)] = IF @ = <<>> THEN @ ELSE SubSeq(@, 1, Len(@) - 1)]

\* ... and the store after it.
RedisDequeueStore(db, c) == LMOVEStore(db, QueueKey(c), ProcessingKey(c))

\* tasks.append(json.loads(task_data)), the history tag kept beside the dict.
RedisLoadTask(e) ==
  LET t == JsonLoads(e.data)
  IN  MemTask(t["request_id"], t["query_vector"], e.uid)

\* The head of the snapshot, whatever its request_id.
AckFindAny(snapshot, r) == IF snapshot = <<>> THEN <<>> ELSE <<snapshot[1].data>>

\* LPOP processing:{client}.
AckStorePop(db, c, task_data) ==
  [db EXCEPT ![ProcessingKey(c)] = IF @ = <<>> THEN <<>> ELSE Tail(@)]

\* DEL processing:{client}.
AckStoreClear(db, c, task_data) == [db EXCEPT ![ProcessingKey(c)] = <<>>]

\* ack: the first task_data of the LRANGE snapshot whose request_id matches
\* (<<>> when the for loop ends without a match).
AckFind(snapshot, r) ==
  LET hits == {i \in 1..Len(snapshot) : JsonLoads(snapshot[i].data)["request_id"] = r}
  IN  IF hits = {} THEN <<>>
      ELSE <<snapshot[CHOOSE i \in hits : \A j \in hits : i <= j].data>>

\* ack: the store after LREM processing:{client} 1 task_data.
AckStore(db, c, task_data) == LREM(db, ProcessingKey(c), task_data)

\* SET-like save: the list is replaced by the new payload alone.
RedisSaveInsightOverwrite(db, r, c, s) ==
  [db EXCEPT ![InsightsKey(r)] =
     <<Entry(JsonDumps(InsightKeys, [client_id |-> c, insight |-> s]), 0)>>]

\* save_insight: the store after LPUSH request:{id}:insights json(payload).
RedisSaveInsight(db, r, c, s) ==
  LPUSH(db, InsightsKey(r),
        Entry(JsonDumps(InsightKeys, [client_id |-> c, insight |-> s]), 0))

\* get_consensus: [json.loads(i) for i in LRANGE request:{id}:insights 0 -1].
RedisGetConsensus(db, r) ==
  LET raw == LRANGE(db, InsightsKey(r))
  IN  [i \in 1..Len(raw) |-> JsonLoads(raw[i].data)]

\* ---------------------------------------------------------- history helpers
Uids(list) == {list[i].uid : i \in 1..Len(list)}

UidSeq(list) == [i \in 1..Len(list) |-> list[i].uid]

\* The (request id, uid) pairs of a Redis task list, head first.
Tagged(list) ==
  [i \in 1..Len(list) |->
     [request_id |-> JsonLoads(list[i].data)["request_id"], uid |-> list[i].uid]]

\* uids removed by an acknowledgement so far.
Acked == UNION {Uids(ackLog[i].before) \ Uids(ackLog[i].after) : i \in 1..Len(ackLog)}

\* uids waiting in client c's pending list, whichever the backend.
PendingUids(c) ==
  IF backend = "memory" THEN Uids(DictGet(queues, c, <<>>))
  ELSE Uids(redis[QueueKey(c)])

IdlePoll ==
  [pc |-> "idle", client |-> NoOne, tasks |-> <<>>, atStart |-> {}, crashedAtStart |-> {}]

NoCall == [client |-> NoOne, tasks |-> <<>>, expected |-> <<>>, crashedAtStart |-> {}]

IdleAck == [pc |-> "idle", client |-> NoOne, request_id |-> NoOne, task_data |-> <<>>]

NoConsensus == [request_id |-> NoOne, data |-> <<>>, log |-> <<>>]

IdleBroadcast ==
  [pc |-> "idle", request_id |-> NoOne, query_vector |-> <<>>, targets |-> <<>>, i |-> 0]

\* The client id the node was started with (NODE_ID).
NodeId == "Hospital_A"

\* The one consumer that drains the queues where a single consumer is at work (the
\* node, in the node's specification).
Consumer == 1

StartNode == [pc |-> "poll", tasks |-> <<>>, i |-> 0, insight |-> NoOne, outcome |-> NoOne]

\* The coroutines calling the in-process broker concurrently.
Coroutines == {"t1", "t2"}

\* The calls they make: an operation and its arguments.
BrokerCalls ==
  [kind : {"enqueue_query"}, client_id : Clients, request_id : RequestIds,
   query_vector : {<<4>>}, insight : {NoOne}]
  \cup [kind : {"dequeue_queries"}, client_id : Clients, request_id : {NoOne},
        query_vector : {<<>>}, insight : {NoOne}]
  \cup [kind : {"save_insight"}, client_id : Clients, request_id : RequestIds,
        query_vector : {<<>>}, insight : {"x"}]
  \cup [kind : {"get_consensus"}, client_id : {NoOne}, request_id : RequestIds,
        query_vector : {<<>>}, insight : {NoOne}]

\* A coroutine that runs no broker operation; `result` is what its last one returned
\* and `expect` what that operation returns when run whole in lock order.
IdleOp ==
  [pc |-> "idle", kind |-> NoOne, client_id |-> NoOne, request_id |-> NoOne,
   query_vector |-> <<>>, insight |-> NoOne, uid |-> 0, tasks |-> <<>>,
   result |-> <<>>, expect |-> <<>>]

\* The files of the data directory in os.walk order, each as (stem, extension).
Files == <<<<"p1", ".json">>, <<"scan", ".png">>, <<"p2", ".json">>>>

FileSet == {Files[i] : i \in 1..Len(Files)}

\* No earlier scan whose result is still to be expected of the next one.
NoPrev == [quiet |-> FALSE, yielded |-> {}]

\* The n-th sync pass at its start.
NewPass(n) ==
  [n |-> n, staged |-> <<>>, skipped |-> <<>>, carried |-> <<>>, add |-> "none",
   rows |-> <<>>, marks |-> <<>>, untouched |-> TRUE, prev |-> NoPrev]

\* sync_database is not running.
IdleSync ==
  [pc |-> "idle", idx |-> 0, cur |-> <<>>, new_data |-> <<>>, processed_files |-> <<>>,
   m |-> 0]

\* sanitize is not running.
IdleFirewall == [pc |-> "idle", raw_text |-> NoOne, calls |-> 0]

\* No transport operation called yet.
NoXport == [op |-> NoOne, failure |-> NoOne, raised |-> FALSE]

\* The patient ids that train.csv may name (parts[2] of a row's Path).
Pids == {"patient1", "patient2", "patient3"}

\* The positive findings a row may carry, in TARGET_PATHOLOGIES order.
PositiveLists == {<<"Edema">>, <<"Consolidation", "Edema">>}

\* A row of train.csv: the number of '/'-separated parts of its Path, the patient id
\* and the positive findings; a row whose Path has fewer than 5 parts names no patient.
CsvRows ==
  [parts : {5}, pid : Pids, positive : PositiveLists]
  \cup {[parts |-> 4, pid |-> NoOne, positive |-> <<>>]}

\* The files train.csv may be.
CsvFiles == UNION {[1..k -> CsvRows] : k \in 0..MaxRows}

\* The two programs that ingest train.csv.
Programs == {"generate", "preprocess"}

\* The sites of the demo corpus, and the pathology one of them never sees.
HOSPITALS == <<"Hospital_A", "Hospital_B">>

BLIND_SPOT_DISEASE == "Consolidation"

\* generate_dataset has not come to its patient loop.
IdleGen ==
  [pc |-> "idle", p |-> 0, i |-> 0, target_hospital |-> NoOne, random |-> FALSE,
   patient_json_array |-> <<>>, routed |-> <<>>, files |-> {}]

\* The files the batch tools are run on: rows of two patients, every Path whole.
BatchFiles ==
  UNION {[1..k -> [parts : {5}, pid : {"patient1", "patient2"}, positive : PositiveLists]] :
           k \in 0..MaxRows}

\* How a POST of run_inference may end: a 200 answer with predictions, an answer
\* that reports an error, or an exception of requests.post.
PostOutcomes == {"ok", "error", "raised"}

\* The batch tools have not started writing.
IdleBatch ==
  [pc |-> "idle", p |-> 0, i |-> 0, line_index |-> 0, payloads |-> <<>>,
   metadata_map |-> EmptyDict, idx |-> 0, results |-> <<>>, line_idx |-> 0,
   patient_records |-> <<>>, routed |-> <<>>, files |-> {}]

\* The demo front end: the sites it queries and the number of polls it makes.
TARGET_NODES == <<"Hospital_A", "Hospital_B">>

MAX_ATTEMPTS == 8

\* How a consensus fetch may end: an answer with the list; an httpx.RequestError
\* (no answer); an error status, which raise_for_status turns into HTTPStatusError.
FetchOutcomes == {"ok", "request_error", "status_error"}

\* broadcast_and_poll has not been called; `consensus_data` is the list the server
\* holds for the request.
IdleDemo ==
  [pc |-> "idle", attempt |-> 0, fetches |-> 0, data |-> <<>>, ended |-> NoOne,
   consensus_data |-> <<>>]

\* The widths of the text and the image embedding.
TEXT_DIM == 768

IMAGE_DIM == 1152

\* The width of the `vector` column of the table.
FUSED_DIM == 1920

\* The values a component of an embedding takes here; arithmetic on them is exact.
Comps == (0 - 1)..MaxComp

\* The embeddings of width n given to _fuse_vectors: any values in the first and
\* the last component, zero between (the zero vector among them).
Embeddings(n) ==
  {[k \in 1..n |-> IF k = 1 THEN a ELSE IF k = n THEN b ELSE 0] : a, b \in Comps}

\* _fuse_vectors has not been called.
IdleFusion == [pc |-> "idle", text_vec |-> <<>>, image_vec |-> <<>>, fused |-> <<>>]

\* The two brokers side by side before any call: the in-process broker's queues, the
\* Redis lists, the number of enqueue_query calls, and the last dequeue's results.
\* No step of an ack call yet.
NoAckStep == [op |-> NoOne, client |-> NoOne, request_id |-> NoOne, parity |-> 0]

IdleTwin ==
  [queues |-> EmptyDict, redis |-> [k \in RedisKeys |-> <<>>], n |-> 0,
   client |-> NoOne, memory |-> <<>>, durable |-> <<>>]

\* No program has read train.csv yet.
IdleIngest ==
  [pc |-> "idle", prog |-> NoOne, limit |-> 0, csv |-> <<>>, idx |-> 0,
   patients_dict |-> <<>>, patients |-> <<>>]

\* ------------------------------------------------------------------- Init
Init ==
  /\ backend \in {"memory", "redis"}
  /\ queues = EmptyDict
  /\ insights = EmptyDict
  /\ redis = [k \in RedisKeys |-> <<>>]
  /\ poll = [p \in Pollers |-> IdlePoll]
  /\ last = NoCall
  /\ ackp = IdleAck
  /\ consensus = NoConsensus
  /\ nextUid = 1
  /\ enq = <<>>
  /\ delivered = <<>>
  /\ sinceLast = [c \in Clients |-> <<>>]
  /\ submitted = [r \in RequestIds |-> <<>>]
  /\ nSaved = 0
  /\ ackLog = <<>>
  /\ crashed = {}
  /\ bc = IdleBroadcast
  /\ nextReq = 1
  /\ bcasts = <<>>
  /\ node = StartNode
  /\ nodeAcks = <<>>
  /\ nodeLog = <<>>
  /\ xport = NoXport
  /\ ackResp = NoOne
  /\ fw = IdleFirewall
  /\ fwLog = <<>>
  /\ lock = NoOne
  /\ waiters = <<>>
  /\ cop = [p \in Coroutines |-> IdleOp]
  /\ serial = [queues |-> EmptyDict, insights |-> EmptyDict]
  /\ nOps = 0
  /\ disk = [f \in FileSet |-> [timestamp |-> 1, size |-> 1]]
  /\ file_state = EmptyDict
  /\ sync = IdleSync
  /\ table = <<>>
  /\ pass = NewPass(0)
  /\ exams = <<>>
  /\ marked = [f \in FileSet |-> <<>>]
  /\ nTouch = 0
  /\ ingest = IdleIngest
  /\ gen = IdleGen
  /\ batch = IdleBatch
  /\ demo = IdleDemo
  /\ fusion = IdleFusion
  /\ twin = IdleTwin
  /\ ackStep = NoAckStep

\* ---------------------------------------------------------------- actions
\* What the insight operations touch, and what only the task operations touch.
insightVars == <<insights, consensus, submitted, nSaved>>
serverVars == <<bc, nextReq, bcasts, ackResp>>
nodeVars == <<node, nodeAcks, nodeLog, xport>>
fwVars == <<fw, fwLog>>
lockVars == <<lock, waiters, cop, serial, nOps>>
syncVars == <<disk, file_state, sync, table, pass, exams, marked, nTouch>>
toolVars == <<ingest, gen, batch, demo, fusion, twin>>
siteVars == <<fwVars, lockVars, syncVars, toolVars, ackStep>>
taskVars == <<queues, poll, last, ackp, nextUid, enq, delivered, sinceLast, ackLog, crashed>>
brokerVars == <<backend, redis, insightVars, taskVars>>

\* broker.enqueue_query(c, r, v)
Enqueue(c, r, v) ==
  /\ IF backend = "memory"
     THEN /\ queues' = MemEnqueue(queues, c, MemTask(r, v, nextUid))
          /\ UNCHANGED redis
     ELSE /\ redis' = RedisEnqueue(redis, c, r, v, nextUid)
          /\ UNCHANGED queues
  /\ enq' = Append(enq, [client_id |-> c, request_id |-> r, query_vector |-> v])
  /\ delivered' = Append(delivered, 0)
  /\ sinceLast' = [sinceLast EXCEPT ![c] = Append(@, nextUid)]
  /\ nextUid' = nextUid + 1
  /\ last' = NoCall
  /\ UNCHANGED <<backend, poll, ackp, ackLog, crashed, insightVars>>

\* enqueue_query called directly on the broker.
EnqueueQuery(c, r, v) ==
  /\ nextUid <= MaxEnq
  /\ Enqueue(c, r, v)
  /\ UNCHANGED <<serverVars, nodeVars, siteVars>>

\* The bookkeeping of a dequeue_queries call of caller p returning `tasks`.
Returned(p, c, tasks, crashedAtStart) ==
  /\ poll' = [poll EXCEPT ![p] = IdlePoll]
  /\ last' = [client |-> c, tasks |-> tasks, expected |-> sinceLast[c],
              crashedAtStart |-> crashedAtStart]
  /\ delivered' = [u \in DOMAIN delivered |->
                     delivered[u] + Cardinality({i \in 1..Len(tasks) : tasks[i].uid = u})]
  /\ sinceLast' = [sinceLast EXCEPT ![c] = <<>>]

CrashedUnacked(c) == {u \in crashed \ Acked : enq[u].client_id = c}

\* InMemoryBroker.dequeue_queries(c), called by p: one step under the lock.
MemDequeueStep(p, c) ==
  /\ backend = "memory"
  /\ poll[p].pc = "idle"
  /\ queues' = MemDequeueQueues(queues, c)
  /\ Returned(p, c, MemDequeueTasks(queues, c), CrashedUnacked(c))
  /\ UNCHANGED <<backend, redis, ackp, nextUid, enq, ackLog, crashed, insightVars>>

\* dequeue_queries called directly on the in-process broker.
MemDequeue(p, c) == MemDequeueStep(p, c) /\ UNCHANGED <<serverVars, nodeVars, siteVars>>

\* RedisBroker.dequeue_queries(c) is called by p: tasks = [].
RedisDequeueCallStep(p, c) ==
  /\ backend = "redis"
  /\ poll[p].pc = "idle"
  /\ poll' = [poll EXCEPT ![p] =
                [pc |-> "loop", client |-> c, tasks |-> <<>>, atStart |-> PendingUids(c),
                 crashedAtStart |-> CrashedUnacked(c)]]
  /\ last' = NoCall
  /\ UNCHANGED <<backend, queues, redis, ackp, nextUid, enq, delivered, sinceLast,
                 ackLog, crashed, insightVars>>

\* One turn of the while loop: LMOVE, then append or break and return.
RedisDequeueMoveStep(p) ==
  /\ backend = "redis"
  /\ poll[p].pc = "loop"
  /\ LET c == poll[p].client
         got == RedisDequeueGot(redis, c)
     IN  /\ redis' = RedisDequeueStore(redis, c)
         /\ IF got = <<>>
            THEN Returned(p, c, poll[p].tasks, poll[p].crashedAtStart)
            ELSE /\ poll' = [poll EXCEPT ![p].tasks = Append(@, RedisLoadTask(got[1]))]
                 /\ last' = NoCall
                 /\ UNCHANGED <<delivered, sinceLast>>
  /\ UNCHANGED <<backend, queues, ackp, nextUid, enq, ackLog, crashed, insightVars>>

\* dequeue_queries called directly on the Redis broker.
RedisDequeueCall(p, c) == RedisDequeueCallStep(p, c) /\ UNCHANGED <<serverVars, nodeVars, siteVars>>

RedisDequeueMove(p) == RedisDequeueMoveStep(p) /\ UNCHANGED <<serverVars, nodeVars, siteVars>>

\* The consumer that received the result just returned dies before acknowledging it.
ConsumerCrash ==
  /\ Uids(last.tasks) \ Acked # {}
  /\ crashed' = crashed \cup (Uids(last.tasks) \ Acked)
  /\ last' = NoCall
  /\ UNCHANGED <<backend, queues, redis, poll, ackp, nextUid, enq, delivered, sinceLast,
                 ackLog, insightVars, serverVars, nodeVars, siteVars>>

\* RedisBroker.ack(c, r): LRANGE and the scan of the snapshot.
AckCallStep(c, r) ==
  /\ backend = "redis"
  /\ ackp.pc = "idle"
  /\ LET found == AckFind(LRANGE(redis, ProcessingKey(c)), r)
     IN  IF found = <<>>
         THEN UNCHANGED ackp
         ELSE ackp' = [pc |-> "lrem", client |-> c, request_id |-> r,
                       task_data |-> found[1]]
  /\ last' = NoCall
  /\ UNCHANGED <<backend, queues, redis, poll, nextUid, enq, delivered, sinceLast,
                 ackLog, crashed, insightVars>>

\* ack called directly on the Redis broker.
AckCall(c, r) == AckCallStep(c, r) /\ UNCHANGED <<serverVars, nodeVars, siteVars>>

\* RedisBroker.ack: the LREM of the element found, and the return.
AckRemoveStep ==
  /\ backend = "redis"
  /\ ackp.pc = "lrem"
  /\ redis' = AckStore(redis, ackp.client, ackp.task_data)
  /\ ackLog' = Append(ackLog,
                [client |-> ackp.client, request_id |-> ackp.request_id,
                 before |-> Tagged(redis[ProcessingKey(ackp.client)]),
                 after |-> Tagged(redis'[ProcessingKey(ackp.client)])])
  /\ ackp' = IdleAck
  /\ last' = NoCall
  /\ UNCHANGED <<backend, queues, poll, nextUid, enq, delivered, sinceLast, crashed,
                 insightVars>>

AckRemove == AckRemoveStep /\ UNCHANGED <<serverVars, nodeVars, siteVars>>

\* broker.save_insight(r, c, s)
Save(r, c, s) ==
  /\ IF backend = "memory"
     THEN /\ insights' = MemSaveInsight(insights, r, c, s)
          /\ UNCHANGED redis
     ELSE /\ redis' = RedisSaveInsight(redis, r, c, s)
          /\ UNCHANGED insights
  /\ submitted' = [submitted EXCEPT ![r] = Append(@, [client_id |-> c, insight |-> s])]
  /\ nSaved' = nSaved + 1
  /\ UNCHANGED <<backend, consensus, taskVars>>

\* save_insight called directly on the broker.
SaveInsight(r, c, s) ==
  /\ nSaved < MaxSave
  /\ Save(r, c, s)
  /\ UNCHANGED <<serverVars, nodeVars, siteVars>>

\* broker.get_consensus(r)
GetConsensus(r) ==
  /\ consensus' = [request_id |-> r,
                   data |-> IF backend = "memory" THEN MemGetConsensus(insights, r)
                            ELSE RedisGetConsensus(redis, r),
                   log |-> submitted[r]]
  /\ UNCHANGED <<backend, insights, redis, submitted, nSaved, taskVars, serverVars,
                 nodeVars, siteVars>>

\* ------------------------------------------------------------ FastAPIServer

\* str(uuid.uuid4()): the n-th value drawn; no two draws are equal.
UuidPool == <<"req_1", "req_2", "req_3">>

Uuid4(n) == UuidPool[n]

BroadcastTargetFirst(targets, i) == targets[1]

\* for client in query.target_clients: the client of the i-th turn.
BroadcastTarget(targets, i) == targets[i]

\* POST /api/v1/query/broadcast: the request id is drawn; with no target the handler
\* returns at once.
BroadcastCall(targets, v) ==
  /\ bc.pc = "idle"
  /\ nextReq <= MaxBroadcast
  /\ nextReq' = nextReq + 1
  /\ bcasts' = Append(bcasts, [request_id |-> Uuid4(nextReq), query_vector |-> v,
                               targets |-> targets, done |-> targets = <<>>,
                               failed |-> 0])
  /\ bc' = IF targets = <<>> THEN IdleBroadcast
           ELSE [pc |-> "enqueue", request_id |-> Uuid4(nextReq), query_vector |-> v,
                 targets |-> targets, i |-> 1]
  /\ last' = NoCall
  /\ UNCHANGED <<backend, redis, queues, poll, ackp, nextUid, enq, delivered, sinceLast,
                 ackLog, crashed, insightVars, nodeVars, ackResp, siteVars>>

\* One turn of the handler's loop: await broker.enqueue_query(client, request_id,
\* vector); after the last turn the handler returns the request id.
BroadcastEnqueue ==
  /\ bc.pc = "enqueue"
  /\ Enqueue(BroadcastTarget(bc.targets, bc.i), bc.request_id, bc.query_vector)
  /\ IF bc.i = Len(bc.targets)
     THEN /\ bc' = IdleBroadcast
          /\ bcasts' = [bcasts EXCEPT ![Len(bcasts)].done = TRUE]
     ELSE /\ bc' = [bc EXCEPT !.i = @ + 1]
          /\ UNCHANGED bcasts
  /\ UNCHANGED <<nextReq, ackResp, nodeVars, siteVars>>

\* The handler with an except clause around the enqueue: the failed turn is skipped
\* and the loop goes on.
BroadcastEnqueueRaiseSwallowed ==
  /\ bc.pc = "enqueue"
  /\ backend = "redis"
  /\ IF bc.i = Len(bc.targets)
     THEN /\ bc' = IdleBroadcast
          /\ bcasts' = [bcasts EXCEPT ![Len(bcasts)].done = TRUE,
                                      ![Len(bcasts)].failed = bc.i]
     ELSE /\ bc' = [bc EXCEPT !.i = @ + 1]
          /\ bcasts' = [bcasts EXCEPT ![Len(bcasts)].failed = bc.i]
  /\ last' = NoCall
  /\ UNCHANGED <<backend, redis, queues, poll, ackp, nextUid, enq, delivered, sinceLast,
                 ackLog, crashed, insightVars, nextReq, ackResp, nodeVars, siteVars>>

\* A turn of the handler's loop in which broker.enqueue_query raises (redis.lpush
\* with the store unreachable): nothing in the broker or the handler catches it, the
\* handler ends there and the requester gets an error answer, without a request id.
BroadcastEnqueueRaise ==
  /\ bc.pc = "enqueue"
  /\ backend = "redis"
  /\ bc' = IdleBroadcast
  /\ bcasts' = [bcasts EXCEPT ![Len(bcasts)].failed = bc.i]
  /\ last' = NoCall
  /\ UNCHANGED <<backend, redis, queues, poll, ackp, nextUid, enq, delivered, sinceLast,
                 ackLog, crashed, insightVars, nextReq, ackResp, nodeVars, siteVars>>

\* The operations each broker class defines.
BrokerMethods(b) ==
  IF b = "redis"
  THEN {"enqueue_query", "dequeue_queries", "ack", "save_insight", "get_consensus"}
  ELSE {"enqueue_query", "dequeue_queries", "save_insight", "get_consensus"}

\* POST /api/v1/query/{r}/ack with a broker that has no ack: self.broker.ack raises
\* AttributeError in the handler and the server answers with an error status.
AckTaskNoMethod(c, r) ==
  /\ "ack" \notin BrokerMethods(backend)
  /\ ackResp' = "error"
  /\ last' = NoCall
  /\ UNCHANGED <<backend, queues, redis, poll, ackp, nextUid, enq, delivered, sinceLast,
                 ackLog, crashed, insightVars, bc, nextReq, bcasts, nodeVars, siteVars>>

\* POST /api/v1/query/{r}/ack: await self.broker.ack(c, r), up to its LRANGE and scan;
\* with nothing found the handler answers at once.
AckTaskCall(c, r) ==
  /\ "ack" \in BrokerMethods(backend)
  /\ AckCallStep(c, r)
  /\ ackResp' = IF ackp'.pc = "idle" THEN "success" ELSE NoOne
  /\ UNCHANGED <<bc, nextReq, bcasts, nodeVars, siteVars>>

\* ... the LREM, and the answer {"status": "success", "message": "ACK"}.
AckTaskRemove ==
  /\ AckRemoveStep
  /\ ackResp' = "success"
  /\ UNCHANGED <<bc, nextReq, bcasts, nodeVars, siteVars>>

\* --------------------------------------------- Node / HttpxClientTransport
\* The operations the client transport of the node offers.
TransportMethods == {"poll_tasks", "submit_insight"}

\* Failures of an HTTP call that httpx raises as httpx.RequestError.
RequestErrors == {"connect", "timeout"}

\* The strings search_fn may return; None is the outcome "none".
SearchTexts == InsightTexts \cup {""}

Called(op, failure, raised) == [op |-> op, failure |-> failure, raised |-> raised]

\* The for loop's next position: the next task, or the sleep after the last one.
NodeAt(tasks, i) ==
  [pc |-> IF i > Len(tasks) THEN "sleep" ELSE "task", tasks |-> tasks, i |-> i,
   insight |-> NoOne, outcome |-> NoOne]

\* transport.poll_tasks against the in-process broker: GET .../poll, one step.
NodePollMem ==
  /\ node.pc = "poll"
  /\ MemDequeueStep(Consumer, NodeId)
  /\ node' = NodeAt(MemDequeueTasks(queues, NodeId), 1)
  /\ xport' = Called("poll_tasks", "none", FALSE)
  /\ UNCHANGED <<nodeAcks, nodeLog, serverVars, siteVars>>

\* transport.poll_tasks against the Redis broker: the request reaches the handler.
NodePollCall ==
  /\ node.pc = "poll"
  /\ RedisDequeueCallStep(Consumer, NodeId)
  /\ node' = [node EXCEPT !.pc = "polling"]
  /\ UNCHANGED <<nodeAcks, nodeLog, xport, serverVars, siteVars>>

\* ... and the handler's dequeue loop runs; its return is the node's `tasks`.
NodePollMove ==
  /\ node.pc = "polling"
  /\ RedisDequeueMoveStep(Consumer)
  /\ IF poll'[Consumer].pc = "idle"
     THEN /\ node' = NodeAt(last'.tasks, 1)
          /\ xport' = Called("poll_tasks", "none", FALSE)
     ELSE UNCHANGED <<node, xport>>
  /\ UNCHANGED <<nodeAcks, nodeLog, serverVars, siteVars>>

\* transport.poll_tasks: httpx.RequestError is caught and [] returned.
NodePollFail(f) ==
  /\ node.pc = "poll"
  /\ node' = NodeAt(<<>>, 1)
  /\ xport' = Called("poll_tasks", f, FALSE)
  /\ last' = NoCall
  /\ UNCHANGED <<backend, redis, queues, poll, ackp, nextUid, enq, delivered, sinceLast,
                 ackLog, crashed, insightVars, nodeAcks, nodeLog, serverVars, siteVars>>

\* transport.poll_tasks: the server answers with an error status; raise_for_status
\* raises httpx.HTTPStatusError, which is no RequestError: it leaves poll_tasks and
\* heartbeat_loop.
NodePollStatus ==
  /\ node.pc = "poll"
  /\ node' = [node EXCEPT !.pc = "crashed"]
  /\ xport' = Called("poll_tasks", "status", TRUE)
  /\ last' = NoCall
  /\ UNCHANGED <<backend, redis, queues, poll, ackp, nextUid, enq, delivered, sinceLast,
                 ackLog, crashed, insightVars, nodeAcks, nodeLog, serverVars, siteVars>>

\* if insight is not None
SubmitsNonEmpty(outcome, s) == outcome = "insight" /\ s # ""

SubmitsInsight(outcome, s) == outcome = "insight"

\* insight = await self.search_fn(task['query_vector']), and the branch on it; a
\* raise goes to the except clause, whose continue runs the finally block.
NodeSearch(outcome, s) ==
  /\ node.pc = "task"
  /\ node' = IF SubmitsInsight(outcome, s)
             THEN [node EXCEPT !.pc = "submit", !.insight = s, !.outcome = outcome]
             ELSE [node EXCEPT !.pc = "ack", !.outcome = outcome]
  /\ nodeLog' = Append(nodeLog, [uid |-> node.tasks[node.i].uid, outcome |-> outcome,
                                 value |-> IF outcome = "insight" THEN s ELSE NoOne,
                                 submits |-> <<>>])
  /\ last' = NoCall
  /\ UNCHANGED <<backend, redis, queues, poll, ackp, nextUid, enq, delivered, sinceLast,
                 ackLog, crashed, insightVars, nodeAcks, xport, serverVars, siteVars>>

\* The call of transport.submit_insight is on record for the task at hand.
LogSubmit == [nodeLog EXCEPT ![Len(nodeLog)].submits = Append(@, node.insight)]

\* await self.transport.submit_insight(client_id, req_id, insight): the POST, and the
\* server's broker.save_insight.
NodeSubmit ==
  /\ node.pc = "submit"
  /\ Save(node.tasks[node.i].request_id, NodeId, node.insight)
  /\ node' = [node EXCEPT !.pc = "ack"]
  /\ nodeLog' = LogSubmit
  /\ xport' = Called("submit_insight", "none", FALSE)
  /\ UNCHANGED <<nodeAcks, serverVars, siteVars>>

\* submit_insight: the POST raises httpx.RequestError; nothing in submit_insight
\* catches it, the node's except clause does, and the finally block runs.
NodeSubmitFail(f) ==
  /\ node.pc = "submit"
  /\ node' = [node EXCEPT !.pc = "ack"]
  /\ nodeLog' = LogSubmit
  /\ xport' = Called("submit_insight", f, TRUE)
  /\ last' = NoCall
  /\ UNCHANGED <<backend, redis, queues, poll, ackp, nextUid, enq, delivered, sinceLast,
                 ackLog, crashed, insightVars, nodeAcks, serverVars, siteVars>>

\* submit_insight: the server answers with an error status; the response is not
\* inspected and the call returns.
NodeSubmitStatus ==
  /\ node.pc = "submit"
  /\ node' = [node EXCEPT !.pc = "ack"]
  /\ nodeLog' = LogSubmit
  /\ xport' = Called("submit_insight", "status", FALSE)
  /\ last' = NoCall
  /\ UNCHANGED <<backend, redis, queues, poll, ackp, nextUid, enq, delivered, sinceLast,
                 ackLog, crashed, insightVars, nodeAcks, serverVars, siteVars>>

\* finally: await self.transport.ack(client_id, req_id).  A transport without the
\* attribute raises AttributeError there, which leaves heartbeat_loop.
NodeAck ==
  /\ node.pc = "ack"
  /\ IF "ack" \in TransportMethods
     THEN /\ nodeAcks' = Append(nodeAcks, node.tasks[node.i].uid)
          /\ node' = NodeAt(node.tasks, node.i + 1)
          /\ xport' = Called("ack", "none", FALSE)
     ELSE /\ node' = [node EXCEPT !.pc = "crashed"]
          /\ xport' = Called("ack", "no_attribute", TRUE)
          /\ UNCHANGED nodeAcks
  /\ last' = NoCall
  /\ UNCHANGED <<backend, redis, queues, poll, ackp, nextUid, enq, delivered, sinceLast,
                 ackLog, crashed, insightVars, nodeLog, serverVars, siteVars>>

\* await asyncio.sleep(self.polling_interval), and the next turn of while True.
NodeWake ==
  /\ node.pc = "sleep"
  /\ node' = StartNode
  /\ last' = NoCall
  /\ UNCHANGED <<backend, redis, queues, poll, ackp, nextUid, enq, delivered, sinceLast,
                 ackLog, crashed, insightVars, nodeAcks, nodeLog, xport, serverVars,
                 siteVars>>

\* ------------------------------------------- InMemoryBroker under its lock
\* What the lock operations leave alone.
lockFrame ==
  <<backend, redis, poll, last, ackp, consensus, nextUid, enq, delivered, sinceLast,
    submitted, nSaved, ackLog, crashed, serverVars, nodeVars, fwVars, syncVars,
    toolVars, ackStep>>

\* asyncio.Lock.acquire takes the lock at once when it is free and nobody waits.
LockIgnored(l, w) == TRUE

LockFree(l, w) == l = NoOne /\ w = <<>>

\* The operation of coroutine p run whole on the maps m: the maps after it ...
WholeMaps(m, o) ==
  IF o.kind = "enqueue_query"
    THEN [m EXCEPT !.queues =
            MemEnqueue(@, o.client_id, MemTask(o.request_id, o.query_vector, o.uid))]
  ELSE IF o.kind = "dequeue_queries"
    THEN [m EXCEPT !.queues = MemDequeueQueues(@, o.client_id)]
  ELSE IF o.kind = "save_insight"
    THEN [m EXCEPT !.insights = MemSaveInsight(@, o.request_id, o.client_id, o.insight)]
  ELSE m

\* ... and what it returns.
WholeResult(m, o) ==
  IF o.kind = "dequeue_queries" THEN MemDequeueTasks(m.queues, o.client_id)
  ELSE IF o.kind = "get_consensus" THEN MemGetConsensus(m.insights, o.request_id)
  ELSE <<>>

\* The coroutine holds the lock from here on: its place in the lock order is fixed.
Locked(p) ==
  /\ lock' = p
  /\ serial' = WholeMaps(serial, cop[p])
  /\ cop' = [cop EXCEPT ![p].pc = "body", ![p].expect = WholeResult(serial, cop[p])]

\* A coroutine calls an operation of the broker.
OpCall(p, call) ==
  /\ backend = "memory"
  /\ cop[p].pc = "idle"
  /\ nOps < MaxOps
  /\ nOps' = nOps + 1
  /\ cop' = [cop EXCEPT ![p] =
               [pc |-> "acquire", kind |-> call.kind, client_id |-> call.client_id,
                request_id |-> call.request_id, query_vector |-> call.query_vector,
                insight |-> call.insight, uid |-> nOps + 1, tasks |-> <<>>,
                result |-> <<>>, expect |-> <<>>]]
  /\ UNCHANGED <<queues, insights, lock, waiters, serial, lockFrame>>

\* async with self.lock: the lock is taken, or the coroutine queues up for it.
LockAcquire(p) ==
  /\ cop[p].pc = "acquire"
  /\ IF LockFree(lock, waiters)
     THEN Locked(p) /\ UNCHANGED waiters
     ELSE /\ waiters' = Append(waiters, p)
          /\ cop' = [cop EXCEPT ![p].pc = "waiting"]
          /\ UNCHANGED <<lock, serial>>
  /\ UNCHANGED <<queues, insights, nOps, lockFrame>>

\* release woke the first waiter, which takes the lock.
LockWake(p) ==
  /\ cop[p].pc = "waiting"
  /\ lock = NoOne
  /\ waiters # <<>> /\ Head(waiters) = p
  /\ waiters' = Tail(waiters)
  /\ Locked(p)
  /\ UNCHANGED <<queues, insights, nOps, lockFrame>>

\* The first statement of the operation's body.
OpBody(p) ==
  /\ cop[p].pc = "body"
  /\ LET o == cop[p]
     IN  \/ /\ o.kind = "enqueue_query"
            /\ queues' = IF o.client_id \in DOMAIN queues THEN queues
                          ELSE DictSet(queues, o.client_id, <<>>)
            /\ cop' = [cop EXCEPT ![p].pc = "last"]
            /\ UNCHANGED insights
         \/ /\ o.kind = "dequeue_queries"
            /\ cop' = [cop EXCEPT ![p].pc = "last",
                                  ![p].tasks = DictGet(queues, o.client_id, <<>>)]
            /\ UNCHANGED <<queues, insights>>
         \/ /\ o.kind = "save_insight"
            /\ insights' = IF o.request_id \in DOMAIN insights THEN insights
                            ELSE DictSet(insights, o.request_id, <<>>)
            /\ cop' = [cop EXCEPT ![p].pc = "last"]
            /\ UNCHANGED queues
         \/ /\ o.kind = "get_consensus"
            /\ cop' = [cop EXCEPT ![p].pc = "last",
                                  ![p].tasks = DictGet(insights, o.request_id, <<>>)]
            /\ UNCHANGED <<queues, insights>>
  /\ UNCHANGED <<lock, waiters, serial, nOps, lockFrame>>

\* The last statement of the body, and the release of the lock on the way out.
OpReturn(p) ==
  /\ cop[p].pc = "last"
  /\ LET o == cop[p]
     IN  \/ /\ o.kind = "enqueue_query"
            /\ queues' = [queues EXCEPT ![o.client_id] =
                            Append(@, MemTask(o.request_id, o.query_vector, o.uid))]
            /\ cop' = [cop EXCEPT ![p].pc = "idle", ![p].result = <<>>]
            /\ UNCHANGED insights
         \/ /\ o.kind = "dequeue_queries"
            /\ queues' = DictSet(queues, o.client_id, <<>>)
            /\ cop' = [cop EXCEPT ![p].pc = "idle", ![p].result = o.tasks]
            /\ UNCHANGED insights
         \/ /\ o.kind = "save_insight"
            /\ insights' = [insights EXCEPT ![o.request_id] =
                              Append(@, [client_id |-> o.client_id, insight |-> o.insight])]
            /\ cop' = [cop EXCEPT ![p].pc = "idle", ![p].result = <<>>]
            /\ UNCHANGED queues
         \/ /\ o.kind = "get_consensus"
            /\ cop' = [cop EXCEPT ![p].pc = "idle", ![p].result = o.tasks]
            /\ UNCHANGED <<queues, insights>>
  /\ lock' = NoOne
  /\ UNCHANGED <<waiters, serial, nOps, lockFrame>>

\* ------------------------------------- SmartFolder / sync_database
\* What the tracker and the sync pass leave alone.
syncFrame == <<brokerVars, serverVars, nodeVars, fwVars, lockVars, toolVars, ackStep>>

\* file.endswith('.json')
EndsWithJson(f) == f[2] = ".json"

\* SELECT timestamp, size FROM file_state WHERE filepath = ?; fetchone(): the row as a
\* one-element sequence, or the empty sequence for None.
SelectRow(t, f) == DictGet(t, f, <<>>)

\* row is None or row[0] != timestamp or row[1] != size
ChangedByTimeOnly(row, st) == row = <<>> \/ row[1].timestamp # st.timestamp

Changed(row, st) ==
  row = <<>> \/ row[1].timestamp # st.timestamp \/ row[1].size # st.size

\* INSERT OR REPLACE INTO file_state (filepath, timestamp, size) VALUES (?, ?, ?)
InsertOrReplace(t, f, ts, sz) == DictSet(t, f, <<[timestamp |-> ts, size |-> sz]>>)

\* Where sync_database goes after self.table.add: on to the marks when it returned;
\* out of the function when it raised.
AfterAddAlways(outcome) == "mark"

AfterAdd(outcome) == IF outcome = "ok" THEN "mark" ELSE "idle"

\* A file of the directory is rewritten: its mtime, its size, or both change.
Touch(f, what) ==
  /\ nTouch < MaxTouch
  /\ nTouch' = nTouch + 1
  /\ disk' = [disk EXCEPT ![f] =
                [timestamp |-> IF what = "size" THEN @.timestamp ELSE @.timestamp + 1,
                 size |-> IF what = "timestamp" THEN @.size ELSE @.size + 1]]
  /\ pass' = [pass EXCEPT !.untouched = FALSE, !.prev = NoPrev]
  /\ UNCHANGED <<file_state, sync, table, exams, marked, syncFrame>>

\* sync_database(): new_data = [], processed_files = [], and the scan begins.
SyncStart ==
  /\ sync.pc = "idle"
  /\ pass.n < MaxPass
  /\ sync' = [IdleSync EXCEPT !.pc = "scan", !.idx = 1]
  /\ pass' = [NewPass(pass.n + 1) EXCEPT
                !.carried = pass.skipped,
                !.prev = IF pass.n > 0 /\ pass.untouched /\ pass.marks = <<>>
                         THEN [quiet |-> TRUE,
                               yielded |-> {pass.staged[k] : k \in 1..Len(pass.staged)}
                                 \cup {pass.skipped[k] : k \in 1..Len(pass.skipped)}]
                         ELSE NoPrev]
  /\ exams' = <<>>
  /\ UNCHANGED <<disk, file_state, table, marked, nTouch, syncFrame>>

\* A scan that records a file as processed the moment it yields it.
ScanFileMarking ==
  /\ sync.pc = "scan"
  /\ sync.idx <= Len(Files)
  /\ LET f == Files[sync.idx]
         st == disk[f]
         yields == EndsWithJson(f) /\ Changed(SelectRow(file_state, f), st)
     IN  /\ exams' = Append(exams, [filepath |-> f, stat |-> st,
                                    marked |-> marked[f], yielded |-> yields])
         /\ file_state' = IF yields
                          THEN InsertOrReplace(file_state, f, st.timestamp, st.size)
                          ELSE file_state
         /\ sync' = IF yields
                    THEN [sync EXCEPT !.pc = "process",
                                      !.cur = [filepath |-> f, timestamp |-> st.timestamp,
                                               size |-> st.size]]
                    ELSE [sync EXCEPT !.idx = @ + 1]
  /\ UNCHANGED <<disk, table, pass, marked, nTouch, syncFrame>>

\* get_changed_files: the generator looks at the next file of the walk; a file that
\* is new or changed is yielded to the loop body of sync_database.
ScanFile ==
  /\ sync.pc = "scan"
  /\ sync.idx <= Len(Files)
  /\ LET f == Files[sync.idx]
         st == disk[f]
         yields == EndsWithJson(f) /\ Changed(SelectRow(file_state, f), st)
     IN  /\ exams' = Append(exams, [filepath |-> f, stat |-> st,
                                    marked |-> marked[f], yielded |-> yields])
         /\ sync' = IF yields
                    THEN [sync EXCEPT !.pc = "process",
                                      !.cur = [filepath |-> f, timestamp |-> st.timestamp,
                                               size |-> st.size]]
                    ELSE [sync EXCEPT !.idx = @ + 1]
  /\ UNCHANGED <<disk, file_state, table, pass, marked, nTouch, syncFrame>>

\* The body reaches new_data.append unless a `continue` or an exception came first.
ReachesAppendUnlessRaised(outcome) == outcome # "raised"

\* Whether the loop body gets as far as new_data.append and processed_files.append.
ReachesAppend(outcome) == outcome = "staged"

\* The loop body for a yielded file: the record is staged together with the tracker
\* update; or it is skipped (image missing, error record); or an exception is
\* caught and printed.
ProcessFile(outcome) ==
  /\ sync.pc = "process"
  /\ sync' = IF ReachesAppend(outcome)
             THEN [sync EXCEPT !.pc = "scan", !.idx = @ + 1, !.cur = <<>>,
                               !.new_data = Append(@, sync.cur.filepath[1]),
                               !.processed_files = Append(@, sync.cur)]
             ELSE [sync EXCEPT !.pc = "scan", !.idx = @ + 1, !.cur = <<>>]
  /\ pass' = [pass EXCEPT
                !.staged = IF ReachesAppend(outcome) THEN Append(@, sync.cur.filepath)
                           ELSE @,
                !.skipped = IF outcome = "staged" THEN @ ELSE Append(@, sync.cur.filepath)]
  /\ UNCHANGED <<disk, file_state, table, exams, marked, nTouch, syncFrame>>

\* The walk is over.
ScanEnd ==
  /\ sync.pc = "scan"
  /\ sync.idx > Len(Files)
  /\ sync' = [sync EXCEPT !.pc = "insert"]
  /\ UNCHANGED <<disk, file_state, table, pass, exams, marked, nTouch, syncFrame>>

\* if new_data: self.table.add(new_data), which returns or raises.
TableAdd(outcome) ==
  /\ sync.pc = "insert"
  /\ sync.new_data # <<>>
  /\ table' = IF outcome = "ok" THEN table \o sync.new_data ELSE table
  /\ pass' = [pass EXCEPT !.add = outcome,
                          !.rows = IF outcome = "ok" THEN sync.new_data ELSE <<>>]
  /\ sync' = IF AfterAdd(outcome) = "mark" THEN [sync EXCEPT !.pc = "mark", !.m = 1]
             ELSE IdleSync
  /\ UNCHANGED <<disk, file_state, exams, marked, nTouch, syncFrame>>

\* else: "No changes detected."
NoChanges ==
  /\ sync.pc = "insert"
  /\ sync.new_data = <<>>
  /\ sync' = IdleSync
  /\ UNCHANGED <<disk, file_state, table, pass, exams, marked, nTouch, syncFrame>>

\* self.tracker.mark_processed(filepath, timestamp, size) for the next staged file.
MarkProcessed ==
  /\ sync.pc = "mark"
  /\ sync.m <= Len(sync.processed_files)
  /\ LET pf == sync.processed_files[sync.m]
     IN  /\ file_state' = InsertOrReplace(file_state, pf.filepath, pf.timestamp, pf.size)
         /\ marked' = [marked EXCEPT ![pf.filepath] =
                         <<[timestamp |-> pf.timestamp, size |-> pf.size]>>]
         /\ pass' = [pass EXCEPT !.marks =
                       Append(@, [filepath |-> pf.filepath, add |-> pass.add,
                                  rows |-> pass.rows])]
  /\ sync' = [sync EXCEPT !.m = @ + 1]
  /\ UNCHANGED <<disk, table, exams, nTouch, syncFrame>>

\* "Sync complete!"
SyncDone ==
  /\ sync.pc = "mark"
  /\ sync.m > Len(sync.processed_files)
  /\ sync' = IdleSync
  /\ UNCHANGED <<disk, file_state, table, pass, exams, marked, nTouch, syncFrame>>

\* ---------------------------------------------------------- LiteLLMFirewall
\* json.dumps of a dict with the one key "msg".
JsonDumpsMsg(obj) == <<"msg", obj["msg"]>>

\* Python's None in a place where a JSON text is expected.
NoneText == <<PyNone>>

\* return None
ReturnsNone == NoneText

NoMatches == JsonDumpsMsg([msg |-> "No local matches found."])

\* `not raw_text`
FalsyNoneOnly(x) == x = PyNone

Falsy(x) == x \in {PyNone, ""}

Sanitized(raw, result, calls, raised) ==
  [raw_text |-> raw, result |-> result, calls |-> calls, raised |-> raised]

\* sanitize(query_vector) is called.
SanitizeCall(v) ==
  /\ fw.pc = "idle"
  /\ Len(fwLog) < MaxSanitize
  /\ fw' = [fw EXCEPT !.pc = "retrieve"]
  /\ UNCHANGED <<fwLog, brokerVars, serverVars, nodeVars, lockVars, syncVars, toolVars,
                 ackStep>>

\* raw_text = await self.retriever_fn(query_vector), and the branch on it: with no
\* text the literal is returned.
SanitizeRetrieve(raw) ==
  /\ fw.pc = "retrieve"
  /\ IF Falsy(raw)
     THEN /\ fwLog' = Append(fwLog, Sanitized(raw, NoMatches, fw.calls, FALSE))
          /\ fw' = IdleFirewall
     ELSE /\ fw' = [fw EXCEPT !.pc = "llm", !.raw_text = raw]
          /\ UNCHANGED fwLog
  /\ UNCHANGED <<brokerVars, serverVars, nodeVars, lockVars, syncVars, toolVars,
                 ackStep>>

\* The retriever raises: sanitize has no handler and raises to its caller.
SanitizeRetrieveRaise ==
  /\ fw.pc = "retrieve"
  /\ fwLog' = Append(fwLog, Sanitized(NoOne, <<>>, fw.calls, TRUE))
  /\ fw' = IdleFirewall
  /\ UNCHANGED <<brokerVars, serverVars, nodeVars, lockVars, syncVars, toolVars,
                 ackStep>>

\* The prompt is rendered and call_llm returns the sanitized string.
SanitizeLlm(out) ==
  /\ fw.pc = "llm"
  /\ fwLog' = Append(fwLog, Sanitized(fw.raw_text, out, fw.calls + 1, FALSE))
  /\ fw' = IdleFirewall
  /\ UNCHANGED <<brokerVars, serverVars, nodeVars, lockVars, syncVars, toolVars,
                 ackStep>>

\* call_llm gives up and raises.
SanitizeLlmRaise ==
  /\ fw.pc = "llm"
  /\ fwLog' = Append(fwLog, Sanitized(fw.raw_text, <<>>, fw.calls + 1, TRUE))
  /\ fw' = IdleFirewall
  /\ UNCHANGED <<brokerVars, serverVars, nodeVars, lockVars, syncVars, toolVars,
                 ackStep>>

\* ------------------------------------------------ pipeline: CSV ingestion
\* What the pipeline tools leave alone.
toolFrame == <<brokerVars, serverVars, nodeVars, fwVars, lockVars, syncVars, ackStep>>

\* The elements of a list.
Elements(list) == {list[k] : k \in 1..Len(list)}

\* patients_dict is a dict in insertion order: the sequence of its items.
DictKeys(d) == {d[i].pid : i \in 1..Len(d)}

\* patients_dict[pid]["images"].append(img), the defaultdict creating the entry.
AppendImage(d, pid, img) ==
  IF pid \in DictKeys(d)
  THEN [i \in 1..Len(d) |-> IF d[i].pid = pid
                            THEN [d[i] EXCEPT !.images = Append(@, img)]
                            ELSE d[i]]
  ELSE Append(d, [pid |-> pid, images |-> <<img>>])

\* len(patients_dict) >= limit and pid not in patients_dict
LimitReached(d, limit, pid) == Len(d) >= limit /\ pid \notin DictKeys(d)

\* list(patients_dict.items())[:limit], limit >= 0
SliceAll(d, limit) == d

Slice(d, limit) == SubSeq(d, 1, IF limit < Len(d) THEN limit ELSE Len(d))

\* parse_chexpert_csv(csv_path, limit), or main(dataset_dir, limit) of the batch
\* preprocessor, opens train.csv: any file and any limit within the bounds.
IngestCall(prog, files) ==
  /\ ingest.pc = "idle"
  /\ \E limit \in 0..MaxLimit, file \in files :
       ingest' = [IdleIngest EXCEPT !.pc = "rows", !.prog = prog, !.limit = limit,
                                   !.csv = file, !.idx = 1]
  /\ UNCHANGED <<gen, batch, demo, fusion, twin, toolFrame>>

\* One turn of `for row in reader`: a short Path is skipped; otherwise the image
\* record is appended to its patient, and the limit test may leave the loop.
ParseRow ==
  /\ ingest.pc = "rows"
  /\ ingest.idx <= Len(ingest.csv)
  /\ LET row == ingest.csv[ingest.idx]
         img == [original_path |-> ingest.idx, positive_findings |-> row.positive]
     IN  IF row.parts < 5
         THEN ingest' = [ingest EXCEPT !.idx = @ + 1]
         ELSE LET d == AppendImage(ingest.patients_dict, row.pid, img)
              IN  ingest' = [ingest EXCEPT
                               !.idx = @ + 1,
                               !.patients_dict = d,
                               !.pc = IF LimitReached(d, ingest.limit, row.pid)
                                      THEN "slice" ELSE "rows"]
  /\ UNCHANGED <<gen, batch, demo, fusion, twin, toolFrame>>

\* The reader is exhausted.
ParseEof ==
  /\ ingest.pc = "rows"
  /\ ingest.idx > Len(ingest.csv)
  /\ ingest' = [ingest EXCEPT !.pc = "slice"]
  /\ UNCHANGED <<gen, batch, demo, fusion, twin, toolFrame>>

\* The first `limit` items of patients_dict become the patients.
ParseReturn ==
  /\ ingest.pc = "slice"
  /\ ingest' = [ingest EXCEPT !.pc = "parsed",
                              !.patients = Slice(ingest.patients_dict, ingest.limit)]
  /\ UNCHANGED <<gen, batch, demo, fusion, twin, toolFrame>>

\* --------------------------------------------- pipeline: generate_dataset
\* all_patient_pathologies after the update with every image's positive findings.
FirstImagePathologies(images) == Elements(images[1].positive_findings)

AllPatientPathologies(images) ==
  UNION {Elements(images[k].positive_findings) : k \in 1..Len(images)}

\* The routing of the next patient: Hospital_B when the blind-spot disease is among
\* its positive findings, random.choice(HOSPITALS) otherwise.
GenerateRoute(choice) ==
  /\ ingest.pc = "parsed" /\ ingest.prog = "generate"
  /\ gen.pc \in {"idle", "next"}
  /\ gen.p < Len(ingest.patients)
  /\ LET patient == ingest.patients[gen.p + 1]
         blind == BLIND_SPOT_DISEASE \in AllPatientPathologies(patient.images)
         target == IF blind THEN "Hospital_B" ELSE HOSPITALS[choice]
     IN  gen' = [gen EXCEPT
                   !.pc = "images", !.p = @ + 1, !.i = 1,
                   !.target_hospital = target, !.random = ~blind,
                   !.patient_json_array = <<>>,
                   !.routed = Append(@, [pid |-> patient.pid, target |-> target,
                                         random |-> ~blind])]
  /\ UNCHANGED <<ingest, batch, demo, fusion, twin, toolFrame>>

\* One image of the patient: call_llm returns and the record and the image go to
\* the patient's site, or it raises and the image is skipped.
GenerateImage(outcome) ==
  /\ gen.pc = "images"
  /\ gen.i <= Len(ingest.patients[gen.p].images)
  /\ LET patient == ingest.patients[gen.p]
         img == patient.images[gen.i]
     IN  IF outcome = "ok"
         THEN gen' = [gen EXCEPT
                        !.i = @ + 1,
                        !.patient_json_array = Append(@, img.original_path),
                        !.files = @ \cup {[site |-> gen.target_hospital,
                                           pid |-> patient.pid,
                                           name |-> img.original_path]}]
         ELSE gen' = [gen EXCEPT !.i = @ + 1]
  /\ UNCHANGED <<ingest, batch, demo, fusion, twin, toolFrame>>

\* The name of a patient's {pid}.json among its files; its images go by row number.
JsonArray == 0

\* if patient_json_array: the patient's JSON array is written to its site.
GenerateSave ==
  /\ gen.pc = "images"
  /\ gen.i > Len(ingest.patients[gen.p].images)
  /\ gen' = [gen EXCEPT
                !.pc = "next",
                !.files = IF gen.patient_json_array # <<>>
                          THEN @ \cup {[site |-> gen.target_hospital,
                                        pid |-> ingest.patients[gen.p].pid,
                                        name |-> JsonArray]}
                          ELSE @]
  /\ UNCHANGED <<ingest, batch, demo, fusion, twin, toolFrame>>

\* ------------------------------------- pipeline: batch pre/postprocessing
\* str(n) for a line index: its decimal digits.
Str(n) == IF n < 10 THEN <<n>> ELSE <<n \div 10, n % 10>>

\* f"{pid}_{pict_name}.jpg": the patient id and the picture name, which the row's
\* Path determines.
ImageReference(pid, img) == <<pid, img.original_path>>

\* Every line creates an entry of its own.
AppendRecordAlways(d, pid, meta, rec) ==
  Append(d, [pid |-> pid, records |-> <<rec>>, meta |-> meta])

\* patient_records is a dict in insertion order: the first line of a patient creates
\* its entry with that line's meta; every line appends its record.
AppendRecord(d, pid, meta, rec) ==
  IF pid \in DictKeys(d)
  THEN [k \in 1..Len(d) |-> IF d[k].pid = pid
                            THEN [d[k] EXCEPT !.records = Append(@, rec)]
                            ELSE d[k]]
  ELSE Append(d, [pid |-> pid, records |-> <<rec>>, meta |-> meta])

\* The preprocessor opens batch_input.jsonl with an empty metadata map.
PreprocessOpen ==
  /\ ingest.pc = "parsed" /\ ingest.prog = "preprocess"
  /\ batch.pc = "idle"
  /\ batch' = [batch EXCEPT !.pc = "write", !.p = 1, !.i = 1]
  /\ UNCHANGED <<ingest, gen, demo, fusion, twin, toolFrame>>

\* One image of one patient: its request line is written, and its metadata entry is
\* stored under str(line_index).
PreprocessLine ==
  /\ batch.pc = "write"
  /\ batch.p <= Len(ingest.patients)
  /\ LET data == ingest.patients[batch.p]
         img == data.images[batch.i]
         meta == [patient_id |-> data.pid,
                  image_reference |-> ImageReference(data.pid, img),
                  original_path |-> img.original_path,
                  all_pathologies |-> img.positive_findings]
         more == batch.i < Len(data.images)
     IN  batch' = [batch EXCEPT
                     !.payloads = Append(@, [pid |-> data.pid,
                                             original_path |-> img.original_path]),
                     !.metadata_map = DictSet(@, Str(batch.line_index), meta),
                     !.line_index = @ + 1,
                     !.i = IF more THEN @ + 1 ELSE 1,
                     !.p = IF more THEN @ ELSE @ + 1]
  /\ UNCHANGED <<ingest, gen, demo, fusion, twin, toolFrame>>

\* batch_metadata.json is written; the preprocessor is done.
PreprocessDump ==
  /\ batch.pc = "write"
  /\ batch.p > Len(ingest.patients)
  /\ batch' = [batch EXCEPT !.pc = "prepared"]
  /\ UNCHANGED <<ingest, gen, demo, fusion, twin, toolFrame>>

\* run_inference reads the request lines and opens an empty results file.
InferenceOpen ==
  /\ batch.pc = "prepared"
  /\ batch' = [batch EXCEPT !.pc = "infer", !.idx = 0, !.results = <<>>]
  /\ UNCHANGED <<ingest, gen, demo, fusion, twin, toolFrame>>

\* One request: the answer, good or bad, is written as one result line; an exception
\* is printed and nothing is written.
InferencePost(outcome) ==
  /\ batch.pc = "infer"
  /\ batch.idx < Len(batch.payloads)
  /\ batch' = [batch EXCEPT
                  !.idx = @ + 1,
                  !.results = IF outcome = "raised" THEN @
                              ELSE Append(@, [request |-> batch.idx,
                                              answer |-> outcome])]
  /\ UNCHANGED <<ingest, gen, demo, fusion, twin, toolFrame>>

\* process_results loads the metadata map and opens the results file.
ProcessOpen ==
  /\ batch.pc = "infer"
  /\ batch.idx = Len(batch.payloads)
  /\ batch' = [batch EXCEPT !.pc = "process", !.line_idx = 0, !.patient_records = <<>>]
  /\ UNCHANGED <<ingest, gen, demo, fusion, twin, toolFrame>>

\* One result line: the record parsed from it gets the patient id and the image
\* reference of metadata[str(line_idx)].
ProcessLine ==
  /\ batch.pc = "process"
  /\ batch.line_idx < Len(batch.results)
  /\ LET line == batch.results[batch.line_idx + 1]
         meta == batch.metadata_map[Str(batch.line_idx)]
         parsed_record == [patient_id |-> meta.patient_id,
                           image_reference |-> meta.image_reference,
                           request |-> line.request]
     IN  batch' = [batch EXCEPT
                     !.line_idx = @ + 1,
                     !.patient_records =
                        AppendRecord(@, meta.patient_id, meta, parsed_record)]
  /\ UNCHANGED <<ingest, gen, demo, fusion, twin, toolFrame>>

\* What the routing loop writes for a patient: {pid}.json with its records, and the
\* image of its meta when the source image exists.
SiloFiles(site, p_data, exists) ==
  {[site |-> site, pid |-> p_data.pid, kind |-> "json", name |-> <<p_data.pid>>]}
    \cup (IF exists
          THEN {[site |-> site, pid |-> p_data.pid, kind |-> "image",
                 name |-> p_data.meta.image_reference]}
          ELSE {})

\* Silo routing of the next patient of patient_records, by the pathologies of its
\* meta; the dataset directory holds the patient's images, or it does not.
SiloRoute(choice, exists) ==
  /\ batch.pc = "process"
  /\ batch.line_idx = Len(batch.results)
  /\ Len(batch.routed) < Len(batch.patient_records)
  /\ LET p_data == batch.patient_records[Len(batch.routed) + 1]
         blind == BLIND_SPOT_DISEASE \in Elements(p_data.meta.all_pathologies)
         target_hospital == IF blind THEN "Hospital_B" ELSE HOSPITALS[choice]
     IN  batch' = [batch EXCEPT
                     !.routed = Append(@, [pid |-> p_data.pid,
                                           target |-> target_hospital,
                                           random |-> ~blind, exists |-> exists]),
                     !.files = @ \cup SiloFiles(target_hospital, p_data, exists)]
  /\ UNCHANGED <<ingest, gen, demo, fusion, twin, toolFrame>>

\* ------------------------------------------- demo: broadcast_and_poll
\* The broadcast POST: it returns the request id, or it fails and the function
\* returns its error card without polling.
DemoBroadcast(ok) ==
  /\ demo.pc = "idle"
  /\ demo' = IF ok THEN [demo EXCEPT !.pc = "poll", !.attempt = 1]
             ELSE [demo EXCEPT !.pc = "done", !.ended = "broadcast_failed"]
  /\ UNCHANGED <<ingest, gen, batch, fusion, twin, toolFrame>>

\* A target site submits its insight for the request: the server appends it.
SiteSubmit(c) ==
  /\ demo.pc = "poll"
  /\ c \in Elements(TARGET_NODES) \ Elements(demo.consensus_data)
  /\ demo' = [demo EXCEPT !.consensus_data = Append(@, c)]
  /\ UNCHANGED <<ingest, gen, batch, fusion, twin, toolFrame>>

\* len(data) == len(TARGET_NODES)
Complete(data) == Len(data) = Len(TARGET_NODES)

\* One turn of the polling loop: sleep, fetch, and the success test.  A RequestError
\* is logged and the loop goes on; HTTPStatusError is not caught and leaves the
\* function.
DemoFetch(outcome) ==
  /\ demo.pc = "poll"
  /\ demo.attempt <= MAX_ATTEMPTS
  /\ LET fetched == demo.consensus_data
         final == demo.attempt = MAX_ATTEMPTS
     IN  demo' =
           IF outcome = "status_error"
           THEN [demo EXCEPT !.fetches = @ + 1, !.pc = "done", !.ended = "raised"]
           ELSE IF outcome = "request_error"
           THEN [demo EXCEPT !.fetches = @ + 1, !.attempt = @ + 1,
                             !.pc = IF final THEN "done" ELSE "poll",
                             !.ended = IF final THEN "exhausted" ELSE NoOne]
           ELSE IF Complete(fetched)
           THEN [demo EXCEPT !.fetches = @ + 1, !.data = fetched,
                             !.pc = "done", !.ended = "break"]
           ELSE [demo EXCEPT !.fetches = @ + 1, !.data = fetched, !.attempt = @ + 1,
                             !.pc = IF final THEN "done" ELSE "poll",
                             !.ended = IF final THEN "exhausted" ELSE NoOne]
  /\ UNCHANGED <<ingest, gen, batch, fusion, twin, toolFrame>>

\* ------------------------------------------------ pipeline: _fuse_vectors
\* The sum of the squares of the components lo..hi of a vector, and of all of them.
RECURSIVE SumSqIn(_, _, _)
SumSqIn(v, lo, hi) ==
  IF lo > hi THEN 0
  ELSE IF lo = hi THEN v[lo] * v[lo]
  ELSE SumSqIn(v, lo, (lo + hi) \div 2) + SumSqIn(v, (lo + hi) \div 2 + 1, hi)

SumSq(v) == SumSqIn(v, 1, Len(v))

\* x / sqrt(s), kept exact as the pair of x and s.
OverRoot(x, s) == [num |-> x, sq |-> s]

\* v / np.linalg.norm(v): every component over the root of the sum of squares.
Normalized(v) == LET s == SumSq(v) IN [k \in 1..Len(v) |-> OverRoot(v[k], s)]

\* np.concatenate([img_norm, text_norm])
ConcatenateTextFirst(img_norm, text_norm) == text_norm \o img_norm

Concatenate(img_norm, text_norm) == img_norm \o text_norm

\* _fuse_vectors(text_vec, image_vec) is called.
FuseCall(text_vec, image_vec) ==
  /\ fusion.pc = "idle"
  /\ fusion' = [fusion EXCEPT !.pc = "called", !.text_vec = text_vec,
                              !.image_vec = image_vec]
  /\ UNCHANGED <<ingest, gen, batch, demo, twin, toolFrame>>

\* Both vectors are normalised, concatenated and returned as a list.
FuseReturn ==
  /\ fusion.pc = "called"
  /\ fusion' = [fusion EXCEPT
                   !.pc = "returned",
                   !.fused = Concatenate(Normalized(fusion.image_vec),
                                         Normalized(fusion.text_vec))]
  /\ UNCHANGED <<ingest, gen, batch, demo, twin, toolFrame>>

\* ------------------------------------------- the two brokers side by side
\* RedisBroker.dequeue_queries run to its end with no other call in between: the
\* tasks its loop collects ...
RECURSIVE RedisDrainTasks(_, _)
RedisDrainTasks(db, c) ==
  IF RedisDequeueGot(db, c) = <<>> THEN <<>>
  ELSE <<RedisLoadTask(RedisDequeueGot(db, c)[1])>>
       \o RedisDrainTasks(RedisDequeueStore(db, c), c)

\* ... and the store it leaves.
RECURSIVE RedisDrainStore(_, _)
RedisDrainStore(db, c) ==
  IF RedisDequeueGot(db, c) = <<>> THEN db
  ELSE RedisDrainStore(RedisDequeueStore(db, c), c)

\* enqueue_query(c, r, v) on both brokers.
TwinEnqueue(c, r, v) ==
  /\ twin.n < MaxEnq
  /\ twin' = [twin EXCEPT
                 !.n = @ + 1,
                 !.queues = MemEnqueue(@, c, MemTask(r, v, twin.n + 1)),
                 !.redis = RedisEnqueue(@, c, r, v, twin.n + 1),
                 !.client = NoOne, !.memory = <<>>, !.durable = <<>>]
  /\ UNCHANGED <<ingest, gen, batch, demo, fusion, toolFrame>>

\* dequeue_queries(c) on both brokers.
TwinDequeue(c) ==
  /\ twin' = [twin EXCEPT
                 !.queues = MemDequeueQueues(@, c),
                 !.redis = RedisDrainStore(@, c),
                 !.client = c,
                 !.memory = MemDequeueTasks(twin.queues, c),
                 !.durable = RedisDrainTasks(twin.redis, c)]
  /\ UNCHANGED <<ingest, gen, batch, demo, fusion, toolFrame>>

\* The node program is run again after heartbeat_loop was left by an exception: a new
\* Node, against the same server.
NodeRestart ==
  /\ node.pc = "crashed"
  /\ node' = StartNode
  /\ last' = NoCall
  /\ UNCHANGED <<backend, redis, queues, poll, ackp, nextUid, enq, delivered, sinceLast,
                 ackLog, crashed, insightVars, nodeAcks, nodeLog, xport, serverVars,
                 siteVars>>

\* What a step of the ack endpoint leaves alone besides the broker.
ackFrame == <<bc, nextReq, bcasts, nodeVars, fwVars, lockVars, syncVars, toolVars>>

\* The step an ack call for (c, r) just took.
AckStepOf(op, c, r) ==
  [op |-> op, client |-> c, request_id |-> r, parity |-> 1 - ackStep.parity]

\* POST /api/v1/query/{r}/ack on the Redis broker: broker.ack(c, r) up to its LRANGE
\* and scan; with nothing found ack returns and the handler answers.
AckScan(c, r) ==
  /\ AckCallStep(c, r)
  /\ ackStep' = AckStepOf("scan", c, r)
  /\ ackResp' = IF ackp'.pc = "idle" THEN "success" ELSE NoOne
  /\ UNCHANGED ackFrame

\* ... the LREM of the element found, ack's return and the handler's answer.
AckDelete ==
  /\ AckRemoveStep
  /\ ackStep' = AckStepOf("lrem", ackp.client, ackp.request_id)
  /\ ackResp' = "success"
  /\ UNCHANGED ackFrame

\* ---------------------------------- the node with sanitize as its search_fn
\* Node(client_id=node_id, transport=transport, search_fn=firewall.sanitize): the
\* sanitize call for the task at hand has not been made yet.
NotSearchedYet == Len(fwLog) = Len(nodeLog)

\* if insight is not None, on what sanitize handed back.
SearchOutcome(call) ==
  IF call.raised THEN "raise"
  ELSE IF call.result = NoneText THEN "none" ELSE "insight"

\* insight = await self.search_fn(task['query_vector']): the node enters sanitize.
SearchFnCall ==
  /\ node.pc = "task"
  /\ NotSearchedYet
  /\ SanitizeCall(node.tasks[node.i].query_vector)

\* sanitize is over: its value, or its exception, reaches the node's try block.
SearchFnReturn ==
  /\ node.pc = "task"
  /\ fw.pc = "idle"
  /\ Len(fwLog) = Len(nodeLog) + 1
  /\ NodeSearch(SearchOutcome(fwLog[Len(fwLog)]), fwLog[Len(fwLog)].result)

\* ---------------------------------------------------------- specifications
\* The task side of the Redis and in-process brokers under one consumer: enqueues,
\* the consumer's dequeues and acknowledgements, and its crash.  No step of it reads
\* the query vector, so every task carries the same one.
Next ==
  \/ \E c \in Clients, r \in RequestIds : EnqueueQuery(c, r, CrashVector)
  \/ \E c \in Clients : MemDequeue(Consumer, c)
  \/ \E c \in Clients : RedisDequeueCall(Consumer, c)
  \/ RedisDequeueMove(Consumer)
  \/ ConsumerCrash
  \/ \E c \in Clients, r \in RequestIds : AckCall(c, r)
  \/ AckRemove

Spec == Init /\ [][Next]_vars

\* The same without the crash: enqueues, the consumer's dequeues, and acknowledgements
\* arriving at any point of them.
NextAck ==
  \/ \E c \in Clients, r \in RequestIds, v \in Vectors : EnqueueQuery(c, r, v)
  \/ \E c \in Clients : MemDequeue(Consumer, c)
  \/ \E c \in Clients : RedisDequeueCall(Consumer, c)
  \/ RedisDequeueMove(Consumer)
  \/ \E c \in Clients, r \in RequestIds : AckCall(c, r)
  \/ AckRemove

SpecAck == Init /\ [][NextAck]_vars

\* Concurrent callers of dequeue_queries, with enqueues going on.
NextPolls ==
  \/ \E c \in Clients, r \in RequestIds, v \in Vectors : EnqueueQuery(c, r, v)
  \/ \E p \in Pollers, c \in Clients : MemDequeue(p, c)
  \/ \E p \in Pollers, c \in Clients : RedisDequeueCall(p, c)
  \/ \E p \in Pollers : RedisDequeueMove(p)

SpecPolls == Init /\ [][NextPolls]_vars

\* The insight side of the broker: save_insight and get_consensus.
NextInsight ==
  \/ \E r \in RequestIds, c \in Clients, s \in InsightTexts : SaveInsight(r, c, s)
  \/ \E r \in RequestIds : GetConsensus(r)

SpecInsight == Init /\ [][NextInsight]_vars

\* The server's broadcast and poll endpoints: broadcasts, and polls for any client
\* interleaved with the broadcast handler's turns.
NextServer ==
  \/ \E t \in TargetLists, v \in Vectors : BroadcastCall(t, v)
  \/ BroadcastEnqueue
  \/ \E c \in Clients : MemDequeue(Consumer, c)
  \/ \E c \in Clients : RedisDequeueCall(Consumer, c)
  \/ RedisDequeueMove(Consumer)

SpecServer == Init /\ [][NextServer]_vars

\* The edge node against the server: broadcasts, and the node's heartbeat loop.
NextNode ==
  \/ \E t \in TargetLists, v \in Vectors : BroadcastCall(t, v)
  \/ BroadcastEnqueue
  \/ NodePollMem
  \/ NodePollCall
  \/ NodePollMove
  \/ \E f \in RequestErrors : NodePollFail(f)
  \/ NodePollStatus
  \/ \E o \in SearchOutcomes, s \in SearchTexts : NodeSearch(o, s)
  \/ NodeSubmit
  \/ \E f \in RequestErrors : NodeSubmitFail(f)
  \/ NodeSubmitStatus
  \/ NodeAck
  \/ NodeWake

SpecNode == Init /\ [][NextNode]_vars

\* The server's ack endpoint, on either broker, after enqueues and polls.
NextAckTask ==
  \/ \E c \in Clients, r \in RequestIds, v \in Vectors : EnqueueQuery(c, r, v)
  \/ \E c \in Clients : MemDequeue(Consumer, c)
  \/ \E c \in Clients : RedisDequeueCall(Consumer, c)
  \/ RedisDequeueMove(Consumer)
  \/ \E c \in Clients, r \in RequestIds : AckTaskNoMethod(c, r)
  \/ \E c \in Clients, r \in RequestIds : AckTaskCall(c, r)
  \/ AckTaskRemove

SpecAckTask == Init /\ [][NextAckTask]_vars

\* A step of a coroutine inside a broker operation.
OpStep(p) == LockAcquire(p) \/ LockWake(p) \/ OpBody(p) \/ OpReturn(p)

\* Coroutines calling the in-process broker concurrently; the event loop runs every
\* coroutine that can go on.
NextLock ==
  \/ \E p \in Coroutines, call \in BrokerCalls : OpCall(p, call)
  \/ \E p \in Coroutines : LockAcquire(p)
  \/ \E p \in Coroutines : LockWake(p)
  \/ \E p \in Coroutines : OpBody(p)
  \/ \E p \in Coroutines : OpReturn(p)

SpecLock == Init /\ [][NextLock]_vars /\ \A p \in Coroutines : WF_vars(OpStep(p))

\* CSV ingestion by either program, over every file and limit within the bounds.
NextCsv ==
  \/ \E prog \in Programs : IngestCall(prog, CsvFiles)
  \/ ParseRow
  \/ ParseEof
  \/ ParseReturn

SpecCsv == Init /\ [][NextCsv]_vars

\* The dataset generator: ingestion, then routing and generation patient by patient.
NextGenerate ==
  \/ IngestCall("generate", CsvFiles)
  \/ ParseRow
  \/ ParseEof
  \/ ParseReturn
  \/ \E choice \in 1..Len(HOSPITALS) : GenerateRoute(choice)
  \/ \E outcome \in {"ok", "raised"} : GenerateImage(outcome)
  \/ GenerateSave

SpecGenerate == Init /\ [][NextGenerate]_vars

\* The batch tools run one after the other: preprocessing, inference, postprocessing.
NextBatch ==
  \/ IngestCall("preprocess", BatchFiles)
  \/ ParseRow
  \/ ParseEof
  \/ ParseReturn
  \/ PreprocessOpen
  \/ PreprocessLine
  \/ PreprocessDump
  \/ InferenceOpen
  \/ \E outcome \in PostOutcomes : InferencePost(outcome)
  \/ ProcessOpen
  \/ ProcessLine
  \/ \E choice \in 1..Len(HOSPITALS), exists \in BOOLEAN : SiloRoute(choice, exists)

SpecBatch == Init /\ [][NextBatch]_vars

\* The demo front end polling for consensus while the target sites answer.
NextDemo ==
  \/ \E ok \in BOOLEAN : DemoBroadcast(ok)
  \/ \E c \in Elements(TARGET_NODES) : SiteSubmit(c)
  \/ \E outcome \in FetchOutcomes : DemoFetch(outcome)

SpecDemo == Init /\ [][NextDemo]_vars

\* Calls of _fuse_vectors with a text and an image embedding.
NextFuse ==
  \/ \E t \in Embeddings(TEXT_DIM), i \in Embeddings(IMAGE_DIM) : FuseCall(t, i)
  \/ FuseReturn

SpecFuse == Init /\ [][NextFuse]_vars

\* The same enqueue_query and dequeue_queries calls made on both brokers.
NextTwin ==
  \/ \E c \in Clients, r \in RequestIds, v \in Vectors : TwinEnqueue(c, r, v)
  \/ \E c \in Clients : TwinDequeue(c)

SpecTwin == Init /\ [][NextTwin]_vars

\* The edge node against the broker of its server, with tasks enqueued meanwhile and
\* the node's program started again whenever it ended.  Which task a poll returns
\* depends on neither the query vector nor the insight text, so every task carries
\* the same vector and every insight is the same.
NextRestart ==
  \/ \E c \in Clients, r \in RequestIds : EnqueueQuery(c, r, CrashVector)
  \/ NodePollMem
  \/ NodePollCall
  \/ NodePollMove
  \/ \E f \in RequestErrors : NodePollFail(f)
  \/ NodePollStatus
  \/ \E o \in SearchOutcomes : NodeSearch(o, "x")
  \/ NodeSubmit
  \/ \E f \in RequestErrors : NodeSubmitFail(f)
  \/ NodeSubmitStatus
  \/ NodeAck
  \/ NodeWake
  \/ NodeRestart

SpecRestart == Init /\ [][NextRestart]_vars

\* The Redis broker with all its lists in use: enqueues, the consumer's dequeues,
\* insights saved, and the steps of acknowledgements.  No step of ack reads a query
\* vector or an insight text, so there is one of each.
NextAckFrame ==
  \/ \E c \in Clients, r \in RequestIds : EnqueueQuery(c, r, CrashVector)
  \/ \E c \in Clients : RedisDequeueCall(Consumer, c)
  \/ RedisDequeueMove(Consumer)
  \/ \E r \in RequestIds : SaveInsight(r, NodeId, "x")
  \/ \E r \in RequestIds : AckScan(NodeId, r)
  \/ AckDelete

SpecAckFrame == Init /\ [][NextAckFrame]_vars

\* Every operation of the broker, on either backend: one client's tasks enqueued,
\* dequeued and acknowledged while insights are saved and read.  No step reads a query vector
\* or an insight text, so there is one of each; the records of the one request
\* that has any differ by client.
NextStore ==
  \/ \E r \in RequestIds : EnqueueQuery(NodeId, r, CrashVector)
  \/ MemDequeue(Consumer, NodeId)
  \/ RedisDequeueCall(Consumer, NodeId)
  \/ RedisDequeueMove(Consumer)
  \/ \E r \in RequestIds : AckCall(NodeId, r)
  \/ AckRemove
  \/ \E c \in Clients : SaveInsight("req_1", c, "x")
  \/ \E r \in RequestIds : GetConsensus(r)

SpecStore == Init /\ [][NextStore]_vars

\* Either dataset tool, run once: the synthetic generator, or the batch tools.
NextSites ==
  \/ IngestCall("generate", CsvFiles)
  \/ IngestCall("preprocess", BatchFiles)
  \/ ParseRow
  \/ ParseEof
  \/ ParseReturn
  \/ \E choice \in 1..Len(HOSPITALS) : GenerateRoute(choice)
  \/ \E outcome \in {"ok", "raised"} : GenerateImage(outcome)
  \/ GenerateSave
  \/ PreprocessOpen
  \/ PreprocessLine
  \/ PreprocessDump
  \/ InferenceOpen
  \/ \E outcome \in PostOutcomes : InferencePost(outcome)
  \/ ProcessOpen
  \/ ProcessLine
  \/ \E choice \in 1..Len(HOSPITALS), exists \in BOOLEAN : SiloRoute(choice, exists)

SpecSites == Init /\ [][NextSites]_vars

\* The edge node of the hospital sample: its search_fn is the firewall's sanitize.
\* Tasks are enqueued for the node meanwhile, and its program is started again
\* whenever it ended.
NextWired ==
  \/ \E r \in RequestIds : EnqueueQuery(NodeId, r, CrashVector)
  \/ NodePollMem
  \/ NodePollCall
  \/ NodePollMove
  \/ SearchFnCall
  \/ \E raw \in RawTexts : SanitizeRetrieve(raw)
  \/ SanitizeRetrieveRaise
  \/ \E out \in LlmOutputs : SanitizeLlm(out)
  \/ SanitizeLlmRaise
  \/ SearchFnReturn
  \/ NodeSubmit
  \/ \E f \in RequestErrors : NodeSubmitFail(f)
  \/ NodeSubmitStatus
  \/ NodeAck
  \/ NodeWake
  \/ NodeRestart

SpecWired == Init /\ [][NextWired]_vars

\* The broadcast endpoint over a store that may be unreachable at any enqueue, with
\* polls for any client in between.  Neither the handler nor a poll reads the query
\* vector, so every broadcast carries the same one.
NextPartial ==
  \/ \E t \in TargetLists : BroadcastCall(t, CrashVector)
  \/ BroadcastEnqueue
  \/ BroadcastEnqueueRaise
  \/ \E c \in Clients : MemDequeue(Consumer, c)
  \/ \E c \in Clients : RedisDequeueCall(Consumer, c)
  \/ RedisDequeueMove(Consumer)

SpecPartial == Init /\ [][NextPartial]_vars

\* Every operation that writes to the broker, on either backend, for every client
\* and request: enqueues, the consumer's dequeues, the steps of acknowledgements
\* and insights saved.  Which key an operation writes depends on neither the query
\* vector, the insight text nor the request id of a task, so there is one of each.
NextKeys ==
  \/ \E c \in Clients : EnqueueQuery(c, "req_1", CrashVector)
  \/ \E c \in Clients : MemDequeue(Consumer, c)
  \/ \E c \in Clients : RedisDequeueCall(Consumer, c)
  \/ RedisDequeueMove(Consumer)
  \/ \E c \in Clients : AckScan(c, "req_1")
  \/ AckDelete
  \/ \E r \in RequestIds : SaveInsight(r, NodeId, "x")

SpecKeys == Init /\ [][NextKeys]_vars

\* The ingestion node: sync pass over a directory whose files change meanwhile.
NextSync ==
  \/ \E f \in FileSet, what \in {"timestamp", "size"} : Touch(f, what)
  \/ SyncStart
  \/ ScanFile
  \/ \E outcome \in {"staged", "skipped", "raised"} : ProcessFile(outcome)
  \/ ScanEnd
  \/ \E outcome \in {"ok", "raised"} : TableAdd(outcome)
  \/ NoChanges
  \/ MarkProcessed
  \/ SyncDone

SpecSync == Init /\ [][NextSync]_vars

\* The semantic firewall: calls of sanitize.
NextFirewall ==
  \/ \E v \in Vectors : SanitizeCall(v)
  \/ \E raw \in RawTexts : SanitizeRetrieve(raw)
  \/ SanitizeRetrieveRaise
  \/ \E out \in LlmOutputs : SanitizeLlm(out)
  \/ SanitizeLlmRaise

SpecFirewall == Init /\ [][NextFirewall]_vars

\* A step of the heartbeat loop with every HTTP call answered.
NodeStep ==
  \/ NodePollMem
  \/ NodePollCall
  \/ NodePollMove
  \/ \E o \in SearchOutcomes, s \in SearchTexts : NodeSearch(o, s)
  \/ NodeSubmit
  \/ NodeAck
  \/ NodeWake

\* The same deployment with the server reachable and the event loops fair: a handler
\* or a heartbeat loop that can take its next step takes it.
NextNodeFair ==
  \/ \E t \in TargetLists, v \in Vectors : BroadcastCall(t, v)
  \/ BroadcastEnqueue
  \/ NodeStep

SpecNodeFair ==
  Init /\ [][NextNodeFair]_vars /\ WF_vars(BroadcastEnqueue) /\ WF_vars(NodeStep)

\* ================================================================= claims
TaskUids == 1..(nextUid - 1)

Payload(t) == [request_id |-> t.request_id, query_vector |-> t.query_vector]

Sent(u) == [request_id |-> enq[u].request_id, query_vector |-> enq[u].query_vector]

\* C1: on the in-process broker a dequeue returns exactly the tasks enqueued for that
\* client since its previous dequeue, in enqueue order, each with the request id and
\* the query vector it was enqueued with.
C1_FifoClearOnRead ==
  (backend = "memory" /\ last.client # NoOne) =>
    /\ UidSeq(last.tasks) = last.expected
    /\ \A i \in 1..Len(last.tasks) :
         /\ enq[last.tasks[i].uid].client_id = last.client
         /\ Payload(last.tasks[i]) = Sent(last.tasks[i].uid)

\* A dequeue that returned two tasks with different request ids and vectors.
C1_Witness ==
  /\ backend = "memory"
  /\ Len(last.tasks) = 2
  /\ last.tasks[1].request_id # last.tasks[2].request_id
  /\ last.tasks[1].query_vector # last.tasks[2].query_vector

\* C2: on either backend no enqueued task is returned by more than one dequeue, and a
\* dequeue leaves nothing pending for its client, so that a dequeue following it with
\* no enqueue in between returns the empty list.
C2_NeverReturnedTwice ==
  /\ \A u \in TaskUids : delivered[u] <= 1
  /\ last.client # NoOne => PendingUids(last.client) = {}

\* A dequeue that returned nothing, for a client whose task an earlier one returned.
C2_Witness ==
  /\ last.client # NoOne
  /\ last.tasks = <<>>
  /\ \E u \in TaskUids : enq[u].client_id = last.client /\ delivered[u] = 1

InFlightUids(c) == Uids(redis[ProcessingKey(c)])

\* C4 as stated: on the Redis backend a task whose consumer crashed before
\* acknowledging it is in the result of a later dequeue for that client.
C4_RedeliveredAfterCrash ==
  (backend = "redis" /\ last.client # NoOne) =>
    \A u \in last.crashedAtStart \ Acked : u \in Uids(last.tasks)

\* C4 amended: on the Redis backend a task whose consumer crashed before acknowledging
\* it stays in processing:{client} until it is acknowledged, and no later dequeue
\* returns it again.
C4_CrashedStaysInFlight ==
  backend = "redis" =>
    \A u \in crashed :
      /\ delivered[u] = 1
      /\ u \notin PendingUids(enq[u].client_id)
      /\ u \notin Acked => u \in InFlightUids(enq[u].client_id)

\* A dequeue that started after the crash returned without the crashed task.
C4_Witness ==
  /\ backend = "redis"
  /\ last.client # NoOne
  /\ last.crashedAtStart \ Acked # {}
  /\ last.crashedAtStart \cap Uids(last.tasks) = {}

\* Number of tasks of client c with request id r that left queue:{c}.
MovedCount(c, r) ==
  Cardinality({u \in TaskUids : /\ enq[u].client_id = c
                                /\ enq[u].request_id = r
                                /\ u \notin PendingUids(c)})

\* Number of completed ack(c, r) calls that had found an entry.
AckCount(c, r) ==
  Cardinality({i \in 1..Len(ackLog) : ackLog[i].client = c /\ ackLog[i].request_id = r})

InFlightCount(c, r) ==
  Cardinality({i \in 1..Len(redis[ProcessingKey(c)]) :
                 JsonLoads(redis[ProcessingKey(c)][i].data)["request_id"] = r})

\* C5: on the Redis backend every task that a dequeue moved out of queue:{client}
\* and that no acknowledgement has retired is in processing:{client}; each
\* acknowledgement retires one task of its request id.
C5_UnackedInProcessing ==
  backend = "redis" =>
    /\ \A u \in TaskUids :
         (u \notin PendingUids(enq[u].client_id) /\ u \notin Acked)
           => u \in InFlightUids(enq[u].client_id)
    /\ \A c \in Clients, r \in RequestIds :
         InFlightCount(c, r) = MovedCount(c, r) - AckCount(c, r)

\* One task acknowledged and gone, another still in flight.
C5_Witness ==
  /\ backend = "redis"
  /\ Acked # {}
  /\ \E c \in Clients : InFlightUids(c) # {}

Others(list, r) == SelectSeq(list, LAMBDA e : e.request_id # r)

Matching(list, r) == SelectSeq(list, LAMBDA e : e.request_id = r)

\* C6: on the Redis backend ack(client, r) removes one entry with request id r from
\* processing:{client} and leaves every entry with another request id in flight,
\* where a later ack for that request id removes it.
C6_AckIsolation ==
  \A i \in 1..Len(ackLog) :
    /\ Others(ackLog[i].after, ackLog[i].request_id)
         = Others(ackLog[i].before, ackLog[i].request_id)
    /\ Len(Matching(ackLog[i].after, ackLog[i].request_id))
         = Len(Matching(ackLog[i].before, ackLog[i].request_id)) - 1

\* Two tasks with different request ids in flight; the first ack removed one and left
\* the other, the second ack removed the other.
C6_Witness ==
  /\ Len(ackLog) = 2
  /\ ackLog[1].client = ackLog[2].client
  /\ Len(ackLog[1].before) = 2
  /\ ackLog[1].before[1].request_id # ackLog[1].before[2].request_id
  /\ Len(ackLog[1].after) = 1
  /\ ackLog[2].before = ackLog[1].after
  /\ ackLog[2].after = <<>>

\* C7: on the in-process broker get_consensus(r) returns the records saved for r so
\* far, with the submitted strings, in submission order; the empty list when there
\* are none.
C7_ConsensusAccumulates ==
  (backend = "memory" /\ consensus.request_id # NoOne) => consensus.data = consensus.log

\* A read that returned two different records.
C7_Witness ==
  /\ backend = "memory"
  /\ Len(consensus.data) = 2
  /\ consensus.data[1] # consensus.data[2]

\* C8 as stated: on the Redis backend get_consensus(r) returns the records saved for
\* r in submission order, earliest first.
C8_RedisSubmissionOrder ==
  (backend = "redis" /\ consensus.request_id # NoOne) => consensus.data = consensus.log

\* C10 as stated: two dequeues for the same client that run concurrently do not split
\* between them the tasks that were pending when both had started.
C10_PollNotSplit ==
  \A p, q \in Pollers :
    (p # q /\ poll[p].pc = "loop" /\ poll[q].pc = "loop"
       /\ poll[p].client = poll[q].client) =>
      LET both == poll[p].atStart \cap poll[q].atStart
      IN  ~ (Uids(poll[p].tasks) \cap both # {} /\ Uids(poll[q].tasks) \cap both # {})

\* Number of times transport.ack was invoked for task u.
AckInvocations(u) == Cardinality({i \in 1..Len(nodeAcks) : nodeAcks[i] = u})

\* C3 as stated: for every polled task, whatever search_fn did, the node has invoked
\* ack exactly once when it leaves that task's try statement, that is, before it
\* starts on the next task, sleeps, or leaves the loop.
C3_AckOncePerTask ==
  \A k \in 1..Len(node.tasks) :
    (k < node.i \/ (k = node.i /\ node.pc = "crashed"))
      => AckInvocations(node.tasks[k].uid) = 1

\* Number of entries of target list t that name client c.
Entries(t, c) == Cardinality({i \in 1..Len(t) : t[i] = c})

\* The tasks enqueued for client c under the request id of broadcast b.
BroadcastTasks(b, c) ==
  {u \in TaskUids : enq[u].request_id = bcasts[b].request_id /\ enq[u].client_id = c}

\* Number of tasks of broadcast b in the dequeue result just returned.
PollCount(b) ==
  Cardinality({i \in 1..Len(last.tasks) : last.tasks[i].request_id = bcasts[b].request_id})

\* uids in the local `tasks` of a dequeue call still running.
HeldUids == UNION {Uids(poll[p].tasks) : p \in Pollers}

\* Fresh request ids; one task per entry of target_clients with the broadcast's id
\* and vector; no task of any broadcast removed, merged or delivered twice.
BroadcastFanOut ==
  /\ \A b1, b2 \in 1..Len(bcasts) :
       b1 # b2 => bcasts[b1].request_id # bcasts[b2].request_id
  /\ \A b \in 1..Len(bcasts), c \in Clients :
       /\ Cardinality(BroadcastTasks(b, c)) <= Entries(bcasts[b].targets, c)
       /\ bcasts[b].done =>
            Cardinality(BroadcastTasks(b, c)) = Entries(bcasts[b].targets, c)
       /\ \A u \in BroadcastTasks(b, c) : enq[u].query_vector = bcasts[b].query_vector
  /\ \A u \in TaskUids :
       /\ delivered[u] <= 1
       /\ (delivered[u] = 1) # (u \in PendingUids(enq[u].client_id) \cup HeldUids)
  /\ \A i \in 1..Len(last.tasks) : Payload(last.tasks[i]) = Sent(last.tasks[i].uid)

\* A returned broadcast none of whose tasks for the polled client was delivered by
\* an earlier poll.
FirstPollAfter(b) ==
  /\ last.client # NoOne
  /\ bcasts[b].done
  /\ Entries(bcasts[b].targets, last.client) > 0
  /\ BroadcastTasks(b, last.client) \subseteq Uids(last.tasks)

\* C9 as stated: the fan-out above, and a poll yields exactly one task for a
\* broadcast that targets the polled client.
C9_OneTaskPerPoll ==
  /\ BroadcastFanOut
  /\ \A b \in 1..Len(bcasts) :
       /\ PollCount(b) <= 1
       /\ FirstPollAfter(b) => PollCount(b) = 1

\* C9 amended: the fan-out above, and a poll yields for a broadcast as many tasks as
\* target_clients has entries naming the polled client (one when it is named once).
C9_OneTaskPerEntry ==
  /\ BroadcastFanOut
  /\ \A b \in 1..Len(bcasts) :
       /\ PollCount(b) <= Entries(bcasts[b].targets, last.client)
       /\ FirstPollAfter(b) => PollCount(b) = Entries(bcasts[b].targets, last.client)

\* Two returned broadcasts to the same client, and one poll that yields one task of
\* each.
C9_Witness ==
  /\ Len(bcasts) = 2
  /\ bcasts[1].done /\ bcasts[2].done
  /\ Len(bcasts[1].targets) = 2
  /\ Len(last.tasks) = 2
  /\ PollCount(1) = 1 /\ PollCount(2) = 1

\* C11 as stated: a task whose processing raised does not end the heartbeat loop, and
\* nothing is submitted for it.
C11_LoopSurvivesRaise ==
  /\ \A k \in 1..Len(nodeLog) : nodeLog[k].outcome = "raise" => nodeLog[k].submits = <<>>
  /\ ~(node.pc = "crashed" /\ node.outcome = "raise")

\* The node is past the submit step of the k-th task it searched.
Decided(k) == k < Len(nodeLog) \/ node.pc # "submit"

\* C12 as stated: for every task searched, submit_insight has been called once with
\* the returned value when the result is non-empty, and not at all otherwise.
C12_SubmitsNonEmptyOnly ==
  \A k \in 1..Len(nodeLog) :
    Decided(k) =>
      nodeLog[k].submits = IF nodeLog[k].outcome = "insight" /\ nodeLog[k].value # ""
                           THEN <<nodeLog[k].value>> ELSE <<>>

\* C12 amended: for every task searched, submit_insight has been called once with the
\* returned value when search_fn returned a value other than None (the empty string
\* included), and not at all when it returned None or raised.
C12_SubmitsWhenNotNone ==
  \A k \in 1..Len(nodeLog) :
    Decided(k) =>
      nodeLog[k].submits = IF nodeLog[k].outcome = "insight"
                           THEN <<nodeLog[k].value>> ELSE <<>>

\* A search returned a text, which was submitted once, and the node moved on.
C12_Witness ==
  \E k \in 1..Len(nodeLog) :
    /\ Decided(k)
    /\ nodeLog[k].outcome = "insight"
    /\ nodeLog[k].submits = <<nodeLog[k].value>>
    /\ submitted[node.tasks[node.i].request_id] # <<>>

\* Every uid a run can hand out: at most two targets per broadcast.
AllUids == 1..(2 * MaxBroadcast)

\* C13 as stated: with the Redis broker, a reachable server and fair scheduling, every
\* task a poll moved into processing:{client} is eventually removed from it.
C13_InFlightEventuallyAcked ==
  \A u \in AllUids :
    (backend = "redis" /\ u \in InFlightUids(NodeId)) ~> (u \notin InFlightUids(NodeId))

\* C14 as stated: the node's call of transport.ack returns, and the server's ack
\* endpoint has answered it after calling broker.ack.
C14_ClientAckReachesBroker ==
  xport.op = "ack" => (~xport.raised /\ ackResp = "success")

\* C15 as stated: the ack endpoint answers success on either backend; on the
\* in-process backend ack raises nothing.
C15_AckOnEveryBackend == ackResp # "error"

\* C16 as stated: no call of poll_tasks or submit_insight ends by raising to the
\* caller, whatever the failure of the HTTP call; a failed poll hands the node [].
C16_TransportNeverRaises ==
  /\ xport.op \in {"poll_tasks", "submit_insight"} => ~xport.raised
  /\ (xport.op = "poll_tasks" /\ xport.failure # "none" /\ node.pc # "crashed")
       => node.tasks = <<>>

\* C17: a sanitize call whose retrieval yielded no text returned exactly the literal
\* {"msg": "No local matches found."} without an LLM call; an LLM call is made only
\* with a retrieved text at hand.
C17_NoMatchSkipsLlm ==
  /\ \A k \in 1..Len(fwLog) :
       /\ fwLog[k].raw_text \in {PyNone, ""}
            => (fwLog[k].result = NoMatches /\ fwLog[k].calls = 0 /\ ~fwLog[k].raised)
       /\ fwLog[k].calls > 0 => fwLog[k].raw_text \in {"case_a", "case_b"}
  /\ fw.pc = "llm" => fw.raw_text \in {"case_a", "case_b"}

\* One call retrieved the empty string and returned the literal, another retrieved a
\* text and called the LLM.
C17_Witness ==
  /\ \E k \in 1..Len(fwLog) : fwLog[k].raw_text = "" /\ fwLog[k].result = NoMatches
  /\ \E k \in 1..Len(fwLog) : fwLog[k].calls = 1 /\ ~fwLog[k].raised

\* Coroutines inside the body of a broker operation.
InBody == {p \in Coroutines : cop[p].pc \in {"body", "last"}}

\* The maps are those of the operations run whole in lock order whenever nobody is
\* inside a body, at most one coroutine is inside, and every finished operation
\* returned what it returns when run whole at its place in that order.
SerialView ==
  /\ Cardinality(InBody) <= 1
  /\ InBody = {} => (queues = serial.queues /\ insights = serial.insights)
  /\ \A p \in Coroutines : cop[p].pc = "idle" => cop[p].result = cop[p].expect

\* C18: concurrent operations of the in-process broker behave as the whole operations
\* run one after another in some order, and every operation started completes.
C18_SerialAndDeadlockFree ==
  /\ []SerialView
  /\ \A p \in Coroutines : (cop[p].pc # "idle") ~> (cop[p].pc = "idle")

\* One coroutine waits for the lock with an enqueue for the client whose queue the
\* other, between the two statements of its dequeue, is about to clear.
C18_Witness ==
  \E p, q \in Coroutines :
    /\ cop[p].pc = "waiting" /\ cop[p].kind = "enqueue_query"
    /\ cop[q].pc = "last" /\ cop[q].kind = "dequeue_queries"
    /\ cop[p].client_id = cop[q].client_id

\* C19: a scan that finds a file whose last mark_processed carried the timestamp and
\* size the file has on disk now does not yield it; a scan that finds the timestamp
\* or the size different from the last mark yields it; and a scan looks at a file
\* once, so it yields it once, in every scan until a mark records the new values.
C19_TrackerIdempotence ==
  /\ \A k \in 1..Len(exams) :
       exams[k].marked # <<>> =>
         (exams[k].yielded <=> (exams[k].marked[1].timestamp # exams[k].stat.timestamp
                                \/ exams[k].marked[1].size # exams[k].stat.size))
  /\ \A j, k \in 1..Len(exams) : exams[j].filepath = exams[k].filepath => j = k

\* One scan finds a marked file unchanged and leaves it out, and finds another marked
\* file changed in its size alone and yields it.
C19_Witness ==
  \E j, k \in 1..Len(exams) :
    /\ exams[j].marked # <<>> /\ exams[j].marked[1] = exams[j].stat /\ ~exams[j].yielded
    /\ exams[k].marked # <<>> /\ exams[k].yielded
    /\ exams[k].marked[1].timestamp = exams[k].stat.timestamp
    /\ exams[k].marked[1].size # exams[k].stat.size

\* C20: in a sync pass every mark_processed comes after table.add returned, and the
\* rows that add was given include the marked file's row; when table.add raised the
\* pass marks nothing; when the pass staged nothing it calls neither.
C20_MarkOnlyAfterInsert ==
  /\ \A k \in 1..Len(pass.marks) :
       /\ pass.marks[k].add = "ok"
       /\ \E i \in 1..Len(pass.marks[k].rows) :
            pass.marks[k].rows[i] = pass.marks[k].filepath[1]
  /\ pass.add = "raised" => pass.marks = <<>>
  /\ pass.staged = <<>> => pass.add = "none" /\ pass.marks = <<>>

\* An earlier pass has marked a file, and the pass that just ended staged a file and
\* saw table.add raise.
C20_Witness ==
  /\ sync.pc = "idle"
  /\ pass.staged # <<>>
  /\ pass.add = "raised"
  /\ \E f \in FileSet : marked[f] # <<>>

\* The rows of the file that name patient p, and the first of them.
PatientRows(csv, p) == {k \in 1..Len(csv) : csv[k].parts >= 5 /\ csv[k].pid = p}

SeenPids(csv) == {p \in Pids : PatientRows(csv, p) # {}}

FirstRow(csv, p) == CHOOSE k \in PatientRows(csv, p) : \A j \in PatientRows(csv, p) : k <= j

AcceptedPids == {ingest.patients[i].pid : i \in 1..Len(ingest.patients)}

\* C24: CSV ingestion returns at most `limit` patients, each once; they are the
\* patients whose first rows come earliest in the file, in that order; and each
\* carries every row of the file that names it, in file order.
C24_FirstLimitPatients ==
  ingest.pc = "parsed" =>
    LET ps == ingest.patients
        csv == ingest.csv
    IN  /\ Len(ps) <= ingest.limit
        /\ Cardinality(AcceptedPids) = Len(ps)
        /\ AcceptedPids \subseteq SeenPids(csv)
        /\ Len(ps) < ingest.limit => AcceptedPids = SeenPids(csv)
        /\ \A i, j \in 1..Len(ps) :
             i < j => FirstRow(csv, ps[i].pid) < FirstRow(csv, ps[j].pid)
        /\ \A p \in AcceptedPids, q \in SeenPids(csv) \ AcceptedPids :
             FirstRow(csv, p) < FirstRow(csv, q)
        /\ \A i \in 1..Len(ps) :
             /\ {ps[i].images[k].original_path : k \in 1..Len(ps[i].images)}
                  = PatientRows(csv, ps[i].pid)
             /\ \A k \in 1..Len(ps[i].images) :
                  /\ ps[i].images[k].positive_findings
                       = csv[ps[i].images[k].original_path].positive
                  /\ k > 1 => ps[i].images[k - 1].original_path
                                < ps[i].images[k].original_path

\* The limit cut a patient off, and an accepted patient has a row that comes after
\* the first row of the patient cut off.
C24_Witness ==
  /\ ingest.pc = "parsed"
  /\ Len(ingest.patients) = ingest.limit
  /\ \E p \in AcceptedPids, q \in SeenPids(ingest.csv) \ AcceptedPids :
       \E k \in PatientRows(ingest.csv, p) : k > FirstRow(ingest.csv, q)

\* Patient p has a positive finding of the blind-spot disease in some row of the file.
BlindSpotPatient(csv, p) ==
  \E k \in PatientRows(csv, p) : BLIND_SPOT_DISEASE \in Elements(csv[k].positive)

\* C22: the generator routes each patient once; a patient with a positive
\* Consolidation finding on any of its images goes to Hospital_B, not by random
\* choice, and every file written for it is under Hospital_B; the other patients,
\* and only they, are routed by random choice.
C22_BlindSpotToHospitalB ==
  /\ \A j, k \in 1..Len(gen.routed) : gen.routed[j].pid = gen.routed[k].pid => j = k
  /\ \A k \in 1..Len(gen.routed) :
       IF BlindSpotPatient(ingest.csv, gen.routed[k].pid)
       THEN gen.routed[k].target = "Hospital_B" /\ ~gen.routed[k].random
       ELSE gen.routed[k].random
  /\ \A f \in gen.files :
       BlindSpotPatient(ingest.csv, f.pid) => f.site = "Hospital_B"

\* A patient whose first image has no Consolidation finding and whose later image
\* has one is saved, and a patient without the finding went to Hospital_A by choice.
C22_Witness ==
  /\ \E f \in gen.files :
       /\ f.name = JsonArray
       /\ BlindSpotPatient(ingest.csv, f.pid)
       /\ BLIND_SPOT_DISEASE
            \notin Elements(ingest.csv[FirstRow(ingest.csv, f.pid)].positive)
  /\ \E k \in 1..Len(gen.routed) :
       gen.routed[k].random /\ gen.routed[k].target = "Hospital_A"

\* The records process_results has attached so far, over all patients.
AttachedRecords ==
  UNION {Elements(batch.patient_records[k].records) :
           k \in 1..Len(batch.patient_records)}

\* Every request line has its one metadata entry under its own zero-based index.
MetadataPerLine ==
  /\ DOMAIN batch.metadata_map = {Str(k - 1) : k \in 1..Len(batch.payloads)}
  /\ \A k \in 1..Len(batch.payloads) :
       /\ batch.metadata_map[Str(k - 1)].patient_id = batch.payloads[k].pid
       /\ batch.metadata_map[Str(k - 1)].image_reference
            = <<batch.payloads[k].pid, batch.payloads[k].original_path>>

\* C21: preprocessing keeps one metadata entry per request line under that line's
\* zero-based index, and every record postprocessing builds from a result line
\* carries the patient id and image reference of the request line that produced
\* the result, whatever the endpoint did with each request.
C21_IndexReassociation ==
  /\ MetadataPerLine
  /\ \A rec \in AttachedRecords :
       /\ rec.patient_id = batch.payloads[rec.request + 1].pid
       /\ rec.image_reference = <<batch.payloads[rec.request + 1].pid,
                                  batch.payloads[rec.request + 1].original_path>>

\* C23: batch postprocessing routes every patient that has an image with a positive
\* Consolidation finding to Hospital_B.
C23_BatchBlindSpotToHospitalB ==
  \A k \in 1..Len(batch.routed) :
    BlindSpotPatient(ingest.csv, batch.routed[k].pid)
      => batch.routed[k].target = "Hospital_B"

\* C25: after a broadcast, broadcast_and_poll makes at most 8 consensus fetches; it
\* ends its polling before the 8th fetch only when a fetch has shown an insight
\* from every target site, and a fetch that shows one ends the polling.
C25_AtMostEightFetches ==
  /\ demo.fetches <= MAX_ATTEMPTS
  /\ (demo.ended \in {"break", "exhausted", "raised"} /\ demo.fetches < MAX_ATTEMPTS)
       => Elements(demo.data) = Elements(TARGET_NODES)
  /\ Elements(demo.data) = Elements(TARGET_NODES) => demo.ended = "break"

\* The square of the L2 norm of a slice of quotients x / sqrt(s) is 1: the slice has
\* one s, s is positive, and the squares of the numerators add up to s.
UnitNorm(slice) ==
  /\ \A k \in 1..Len(slice) : slice[k].sq = slice[1].sq
  /\ slice[1].sq > 0
  /\ SumSq([k \in 1..Len(slice) |-> slice[k].num]) = slice[1].sq

\* C26: for a non-zero text vector of width 768 and a non-zero image vector of width
\* 1152 the fused list has 1920 entries; the first 1152 are the image vector's
\* components over the image vector's norm, the last 768 the text vector's over the
\* text vector's norm; each of the two slices has L2 norm 1.
C26_FusedIsImageThenText ==
  fusion.pc = "returned" =>
    LET t == SumSq(fusion.text_vec)
        i == SumSq(fusion.image_vec)
    IN  (t # 0 /\ i # 0)
        => /\ Len(fusion.fused) = FUSED_DIM
           /\ \A k \in 1..IMAGE_DIM :
                fusion.fused[k] = [num |-> fusion.image_vec[k], sq |-> i]
           /\ \A k \in 1..TEXT_DIM :
                fusion.fused[IMAGE_DIM + k] = [num |-> fusion.text_vec[k], sq |-> t]
           /\ UnitNorm(SubSeq(fusion.fused, 1, IMAGE_DIM))
           /\ UnitNorm(SubSeq(fusion.fused, IMAGE_DIM + 1, FUSED_DIM))

\* A fusion has returned for two non-zero vectors of the two widths whose norms
\* differ and whose first components differ.
C26_Witness ==
  /\ fusion.pc = "returned"
  /\ Len(fusion.text_vec) = TEXT_DIM /\ Len(fusion.image_vec) = IMAGE_DIM
  /\ SumSq(fusion.text_vec) > 1
  /\ SumSq(fusion.image_vec) > SumSq(fusion.text_vec)
  /\ fusion.text_vec[1] # fusion.image_vec[1]

\* C27: given the same enqueue_query and dequeue_queries calls, one after the other,
\* the Redis broker returns from every dequeue the task sequence the in-process
\* broker returns: the client's tasks in the order they were enqueued.
C27_SameTaskSequences ==
  twin.client # NoOne =>
    /\ twin.durable = twin.memory
    /\ \A j, k \in 1..Len(twin.durable) :
         j < k => twin.durable[j].uid < twin.durable[k].uid

\* Both brokers returned two tasks that differ in request id and vector.
C27_Witness ==
  /\ Len(twin.durable) = 2 /\ Len(twin.memory) = 2
  /\ twin.durable[1].request_id # twin.durable[2].request_id
  /\ twin.durable[1].query_vector # twin.durable[2].query_vector

\* The tasks the node passed to search_fn, in order.
Searched == [i \in 1..Len(nodeLog) |-> nodeLog[i].uid]

\* The tasks whose processing raised: search_fn did, or submit_insight did.
Raised ==
  {nodeLog[i].uid : i \in {j \in 1..Len(nodeLog) : nodeLog[j].outcome = "raise"}}
    \cup (IF xport.raised /\ xport.op = "submit_insight" /\ nodeLog # <<>>
          THEN {nodeLog[Len(nodeLog)].uid} ELSE {})

\* C28: the node passes each task to search_fn at most once, and a task whose
\* processing raised is in the result of no poll but the one that delivered it.
C28_SearchedAtMostOnce ==
  /\ \A i, j \in 1..Len(Searched) : Searched[i] = Searched[j] => i = j
  /\ \A u \in Raised : delivered[u] = 1

\* A task's search raised, and a later poll of the node returned another task.
C28_Witness ==
  /\ node.pc = "task" /\ node.i = 1
  /\ nodeLog # <<>> /\ nodeLog[Len(nodeLog)].outcome = "raise"
  /\ enq[nodeLog[Len(nodeLog)].uid].client_id = NodeId
  /\ node.tasks[1].uid # nodeLog[Len(nodeLog)].uid

\* The tasks the i-th completed acknowledgement took out of the in-flight list.
RemovedBy(i) == Uids(ackLog[i].before) \ Uids(ackLog[i].after)

\* C29: with one consumer, whatever enqueues and dequeue steps come between the
\* LRANGE of ack(client, r) and its LREM, the LREM finds an entry to remove, and a
\* completed ack has removed exactly one in-flight task, one that was enqueued for
\* that client with request id r.
C29_AckRemovesOneMatching ==
  /\ ackp.pc = "lrem" =>
       \E k \in 1..Len(redis[ProcessingKey(ackp.client)]) :
         redis[ProcessingKey(ackp.client)][k].data = ackp.task_data
  /\ \A i \in 1..Len(ackLog) :
       /\ Uids(ackLog[i].after) \subseteq Uids(ackLog[i].before)
       /\ Cardinality(RemovedBy(i)) = 1
       /\ \A u \in RemovedBy(i) : /\ enq[u].request_id = ackLog[i].request_id
                                   /\ enq[u].client_id = ackLog[i].client

\* A dequeue moved a task with the same request id to the head of the in-flight list
\* between the scan and the delete: the ack removed the entry it had found, behind it.
C29_Witness ==
  /\ ackLog # <<>>
  /\ LET a == ackLog[Len(ackLog)]
     IN  /\ Len(a.before) = 2 /\ Len(a.after) = 1
         /\ a.before[1].request_id = a.request_id
         /\ a.after[1] = a.before[1]

\* The Redis lists other than processing:{c}.
OtherKeys(c) == RedisKeys \ {ProcessingKey(c)}

\* A step of an ack call has just been taken.
AckStepTaken == ackStep' # ackStep

\* C30: on the Redis backend a step of ack(client, r) removes at most one entry from
\* processing:{client} and changes no other list: not queue:{client}, not another
\* client's lists, not an insight list; when no in-flight entry has request id r
\* the call changes nothing and returns normally.
C30_AckFrame ==
  [][AckStepTaken =>
       LET c == ackStep'.client
           r == ackStep'.request_id
           p == ProcessingKey(c)
       IN  /\ \A key \in OtherKeys(c) : redis'[key] = redis[key]
           /\ \/ redis'[p] = redis[p]
              \/ \E k \in 1..Len(redis[p]) : redis'[p] = RemoveAt(redis[p], k)
           /\ (ackStep'.op = "scan" /\ InFlightCount(c, r) = 0) =>
                 (redis' = redis /\ ackp'.pc = "idle" /\ ackResp' = "success")]_vars

\* An ack has removed an entry while another task list and an insight list held
\* entries, and then an ack for a request id not in flight has returned.
C30_Witness ==
  /\ ackLog # <<>>
  /\ ackStep.op = "scan" /\ ackp.pc = "idle" /\ ackResp = "success"
  /\ \E key \in OtherKeys(ackLog[1].client) : ackLog[1].before # <<>> /\ redis[key] # <<>>
  /\ \E c \in Clients : redis[QueueKey(c)] # <<>> \/ redis[ProcessingKey(c)] # <<>>
  /\ \E r \in RequestIds : redis[InsightsKey(r)] # <<>>

\* What get_consensus(r) returns when called in the current state.
ConsensusNow(r) ==
  IF backend = "memory" THEN MemGetConsensus(insights, r) ELSE RedisGetConsensus(redis, r)

\* Number of elements of a list equal to x.
Occurs(list, x) == Cardinality({i \in 1..Len(list) : list[i] = x})

\* The lists a and b hold the same elements, each as often.
SameRecords(a, b) ==
  /\ Len(a) = Len(b)
  /\ \A k \in 1..Len(a) : Occurs(a, a[k]) = Occurs(b, a[k])

\* C31: insight records are append-only: whatever enqueues, dequeues, acks, saves and
\* reads have run, get_consensus(r) returns every record saved for r so far, each
\* with the client_id and insight it was saved with, and the last read returned
\* every record saved before it.
C31_InsightsAppendOnly ==
  /\ \A r \in RequestIds : SameRecords(submitted[r], ConsensusNow(r))
  /\ SameRecords(consensus.log, consensus.data)

\* A read returned a record; since then a task was acknowledged and another insight
\* was saved for the same request id, and the record read is still returned.
C31_Witness ==
  /\ consensus.request_id # NoOne
  /\ Len(consensus.data) = 1
  /\ Len(ConsensusNow(consensus.request_id)) = 2
  /\ Occurs(ConsensusNow(consensus.request_id), consensus.data[1]) = 1
  /\ ackLog # <<>>

\* The tasks caller p's running dequeue has moved so far, and those still pending.
DrainSeen(p) == Uids(poll[p].tasks) \cup PendingUids(poll[p].client)

\* C32 as stated: a running Redis dequeue that no enqueue for its client has
\* overlapped moves exactly the tasks that were pending when it was called: each of
\* them is either moved into its result or still pending, until it observes the list
\* empty and returns those n tasks after n moves.
C32_DrainsExactly ==
  \A p \in Pollers :
    (backend = "redis" /\ poll[p].pc = "loop" /\ DrainSeen(p) \subseteq poll[p].atStart) =>
      /\ DrainSeen(p) = poll[p].atStart
      /\ Len(poll[p].tasks) + Len(redis[QueueKey(poll[p].client)])
           = Cardinality(poll[p].atStart)

\* The scan of the current pass is over.
ScanOver == pass.n > 0 /\ sync.pc \in {"insert", "mark", "idle"}

\* C33: a file skipped in a sync pass (image missing, error record, or an exception
\* in the loop body) is neither staged nor marked processed in that pass; the scan
\* goes on to the files after it, and what the pass staged is what it inserts; and
\* the next pass's scan, when it comes to the file, yields it again.
C33_SkippedFileComesBack ==
  /\ \A k \in 1..Len(pass.skipped) :
       /\ \A j \in 1..Len(pass.staged) : pass.staged[j] # pass.skipped[k]
       /\ \A j \in 1..Len(sync.processed_files) :
            sync.processed_files[j].filepath # pass.skipped[k]
       /\ \A j \in 1..Len(pass.marks) : pass.marks[j].filepath # pass.skipped[k]
  /\ ScanOver => Len(exams) = Len(Files)
  /\ pass.add = "ok" => pass.rows = [j \in 1..Len(pass.staged) |-> pass.staged[j][1]]
  /\ \A k \in 1..Len(exams) :
       (\E j \in 1..Len(pass.carried) : pass.carried[j] = exams[k].filepath) =>
         exams[k].yielded

\* The first pass skipped the first file and inserted the one after it; the second
\* pass's scan has come to the skipped file again.
C33_Witness ==
  /\ pass.n = 2
  /\ pass.carried = <<Files[1]>>
  /\ table = <<Files[3][1]>>
  /\ exams # <<>> /\ exams[1].filepath = Files[1] /\ exams[1].yielded

\* C34 as stated: the vector table holds at most one row per id.
C34_OneRowPerId ==
  \A j, k \in 1..Len(table) : table[j] = table[k] => j = k

\* The sites under which a set of written files holds something of patient pid.
SitesOf(files, pid) == {f.site : f \in {g \in files : g.pid = pid}}

\* A routing list names no patient twice.
RoutedOnce(routed) ==
  \A j, k \in 1..Len(routed) : routed[j].pid = routed[k].pid => j = k

\* C35: in a run of the generator and in a run of batch postprocessing the site is
\* chosen once per patient, and the patient's record file and every image copied
\* for it are under that one site.
C35_OneSitePerPatient ==
  /\ RoutedOnce(gen.routed) /\ RoutedOnce(batch.routed)
  /\ \A k \in 1..Len(gen.routed) :
       SitesOf(gen.files, gen.routed[k].pid) \subseteq {gen.routed[k].target}
  /\ \A k \in 1..Len(batch.routed) :
       SitesOf(batch.files, batch.routed[k].pid) \subseteq {batch.routed[k].target}

\* The generator has written the record file and two images of a patient whose site
\* it chose at random.
C35_Witness ==
  \E k \in 1..Len(gen.routed) :
    /\ gen.routed[k].random
    /\ Cardinality({f \in gen.files : f.pid = gen.routed[k].pid}) = 3

\* C36 as stated: after batch postprocessing has written a patient whose source
\* images exist, the image named by the image_reference of every record of the
\* patient's array is in the patient's site directory.
C36_EveryRecordImageCopied ==
  \A k \in 1..Len(batch.routed) :
    batch.routed[k].exists =>
      \A j \in 1..Len(batch.patient_records[k].records) :
        [site |-> batch.routed[k].target, pid |-> batch.routed[k].pid, kind |-> "image",
         name |-> batch.patient_records[k].records[j].image_reference] \in batch.files

\* C37: with sanitize as the node's search_fn, no search ends in the no-relevant-data
\* branch, and for every task on which sanitize returned (did not raise)
\* submit_insight has been called exactly once, with the value sanitize returned,
\* which is the fixed literal when the retriever found nothing.
C37_SanitizeAlwaysSubmits ==
  \A k \in 1..Len(nodeLog) :
    /\ nodeLog[k].outcome # "none"
    /\ (nodeLog[k].outcome = "raise") = fwLog[k].raised
    /\ ~fwLog[k].raised =>
         /\ nodeLog[k].value = fwLog[k].result
         /\ Falsy(fwLog[k].raw_text) => nodeLog[k].value = NoMatches
         /\ Len(nodeLog[k].submits) <= 1
         /\ Decided(k) => nodeLog[k].submits = <<nodeLog[k].value>>

\* The retriever found nothing, sanitize returned the literal, and the node has
\* submitted it for the task.
C37_Witness ==
  \E k \in 1..Len(nodeLog) :
    /\ Decided(k)
    /\ Falsy(fwLog[k].raw_text)
    /\ ~fwLog[k].raised
    /\ nodeLog[k].submits = <<NoMatches>>

\* The targets of the turns of broadcast b that ran before the one that raised.
Reached(b) == SubSeq(bcasts[b].targets, 1, bcasts[b].failed - 1)

\* C38: a broadcast whose k-th enqueue raised has not returned a request id, has
\* enqueued one task for each of the first k-1 targets and nothing more (no retry,
\* no rollback), each of those tasks stays in its client's queue until a poll
\* delivers it, and once a poll for the client has returned all of them are delivered.
C38_PartialBroadcastStays ==
  \A b \in 1..Len(bcasts) :
    bcasts[b].failed > 0 =>
      /\ ~bcasts[b].done
      /\ \A c \in Clients :
           /\ Cardinality(BroadcastTasks(b, c)) = Entries(Reached(b), c)
           /\ \A u \in BroadcastTasks(b, c) :
                /\ delivered[u] <= 1
                /\ (delivered[u] = 1) # (u \in PendingUids(c) \cup HeldUids)
                /\ last.client = c => delivered[u] = 1

\* The second enqueue of a broadcast to two clients raised, and the next poll of the
\* first client returned the task enqueued for it.
C38_Witness ==
  \E b \in 1..Len(bcasts) :
    /\ bcasts[b].failed = 2
    /\ bcasts[b].targets[1] # bcasts[b].targets[2]
    /\ last.client = bcasts[b].targets[1]
    /\ PollCount(b) = 1

\* The pending and the in-flight tasks the broker holds for client c.
TasksOf(q, db, c) ==
  [pending |-> IF backend = "memory" THEN DictGet(q, c, <<>>) ELSE db[QueueKey(c)],
   inflight |-> IF backend = "memory" THEN <<>> ELSE db[ProcessingKey(c)]]

\* The insights the broker holds for request r.
InsightsOf(ins, db, r) ==
  IF backend = "memory" THEN DictGet(ins, r, <<>>) ELSE db[InsightsKey(r)]

\* The step is one of enqueue_query, of dequeue_queries plainly or of ack, and the
\* client it is called for.
EnqueueStepTaken == nextUid' # nextUid

DequeueStepTaken == poll' # poll \/ (last' # NoCall /\ last' # last)

TaskStepTaken == EnqueueStepTaken \/ DequeueStepTaken \/ AckStepTaken

TaskStepClient ==
  IF EnqueueStepTaken THEN enq'[nextUid].client_id
  ELSE IF AckStepTaken THEN ackStep'.client
  ELSE IF poll[Consumer].pc # "idle" THEN poll[Consumer].client
  ELSE IF poll'[Consumer].pc # "idle" THEN poll'[Consumer].client
  ELSE last'.client

\* The step is a save_insight call.
SaveStepTaken == nSaved' # nSaved

\* C39: a step of enqueue_query, dequeue_queries or ack for a client leaves the
\* pending and in-flight tasks of every other client as they were, and a
\* save_insight for a request leaves the insights of every other request and the
\* tasks of every client as they were, on both backends.
C39_PartitionedByKey ==
  [][(TaskStepTaken =>
          \A c \in Clients \ {TaskStepClient} :
            TasksOf(queues', redis', c) = TasksOf(queues, redis, c))
      /\ (SaveStepTaken =>
            /\ \A a \in Clients : TasksOf(queues', redis', a) = TasksOf(queues, redis, a)
            /\ \A r \in RequestIds :
                 submitted'[r] = submitted[r] =>
                   InsightsOf(insights', redis', r) = InsightsOf(insights, redis, r))]_vars

\* Both clients have tasks, one of them in flight on the Redis backend or pending on
\* the in-process one, insights are saved for both requests, and an operation for
\* one client has just been carried out.
C39_Witness ==
  /\ \A c \in Clients :
       TasksOf(queues, redis, c).pending # <<>> \/ TasksOf(queues, redis, c).inflight # <<>>
  /\ \A r \in RequestIds : InsightsOf(insights, redis, r) # <<>>
  /\ \E u \in DOMAIN delivered : delivered[u] = 1

\* The files the scan of the current pass has yielded so far.
YieldedNow == {exams[k].filepath : k \in {j \in 1..Len(exams) : exams[j].yielded}}

\* The scan of the current pass has just ended, and since the start of the scan of
\* the pass before it no file has changed and mark_processed has not been called.
RepeatedScan ==
  /\ sync.pc = "insert"
  /\ pass.prev.quiet
  /\ pass.untouched

\* C40: file_state holds for every file what the last mark_processed call for it
\* wrote, and nothing when there was none, so no scan has modified it; and a scan
\* that follows another with no mark_processed and no change of a file in between
\* yields the same set of files.
C40_ScanLeavesStateAlone ==
  /\ \A f \in FileSet : SelectRow(file_state, f) = marked[f]
  /\ RepeatedScan => YieldedNow = pass.prev.yielded

\* A pass yielded files that no mark_processed had recorded, staged one of them and
\* saw table.add raise; the scan of the next pass has yielded the same files.
C40_Witness ==
  /\ RepeatedScan
  /\ YieldedNow # {}
  /\ YieldedNow = pass.prev.yielded
  /\ pass.carried # <<>>
  /\ Len(pass.carried) < Cardinality(pass.prev.yielded)
====
